---------------------------- MODULE Spec2Model ----------------------------
(***************************************************************************)
(* Enrollex: the student registration form (src/src/register.js), the      *)
(* department verification console (src/unnamed/part_001) and the queue    *)
(* dashboard (src/unnamed/part_002), as state machines.                    *)
(*                                                                         *)
(* Text values are sequences of one-character strings, so that trimming,   *)
(* length, the e-mail pattern and the numeric coercions of the validation  *)
(* rules are computed character by character as the JavaScript does.       *)
(* Messages are strings.  Form fields that no modelled handler ever reads  *)
(* (blood group, religion, guardian fields, ...) are left out of formData. *)
(***************************************************************************)
EXTENDS Integers, Sequences, FiniteSets, TLC

VARIABLES
    \* ---- StudentRegistration component (register.js) ----
    currentStep,           \* useState(0)
    formData,              \* text fields of the form aggregate
    formFiles,             \* document-upload keys of the form aggregate: NoFile or file info
    message,               \* transient message
    otpSent, otpVerified, otp, otpLoading, otpTimer, canResendOtp,
    parentPhoneCountry,
    sameAsCorrespondence,
    uploadedFiles,         \* staged-file map: document field -> file name ("" when absent)
    uploadStatus,          \* document field -> "none" | "ready" | "error"
    pendingReads,          \* FileReader reads started and not yet settled
    inFlight,              \* network requests issued by the component and not yet answered
    \* history variables of the registration component
    sendOtpOk,             \* some send-otp request got an ok/success response
    sendOtpFallback,       \* some send-otp request ended in the catch branch
    lastUpload,            \* the last file selection: [field, file], or NoUpload
    verdict,               \* result of the last stand-alone validateStep call
    verdictStep,           \* the step index it was called with
    nBadEdits,             \* edits that wrote something else than a field's valid sample
    nUploads,              \* file selections made
    loading,               \* useState(false): a registration request is out
    studentData,           \* useState(null): the receipt the status view shows
    localStorage,          \* the item stored under 'studentRegistration'
    lastSubmit,            \* history: how the last handleRegistration call ended
    nMounts,               \* history: fresh mounts of the page after the first
    \* ---- AttendanceMarker component (Admin/Attendance.js) ----
    markerStudents,        \* useState([]): students
    markerLoading,         \* useState(true): loading
    markingAttendance,     \* the student ids whose markingAttendance flag is set
    markerNotification,    \* the message of the last notification
    nMarkerClicks,         \* clicks made on the attendance page
    \* ---- the admission slip of the department console ----
    printingStudents,      \* session -> useState(new Set()): printingStudents
    studentSlipStatus,     \* session -> student id -> {hasSlip, slipLink}
    slipStore,             \* server: student id -> the link of the generated slip
    lastSlip,              \* history: how the last handlePrintDocument call ended
    \* ---- StudentQueueDashboard component (part_002) ----
    rosterResponse,        \* the students array GET /api/students answers with
    queueStudents,         \* useState([]): students
    queueLoading,          \* useState(true): loading
    queueError,            \* useState(null): error
    groupedStudents,       \* the department queues of the last render
    queueFetches,          \* fetchStudents calls awaiting their response (0 or 1)
    lastFetch,             \* history: how the last settled fetchStudents call ended
    \* ---- DepartmentVerification component (part_001), one per admin session ----
    students,              \* session -> the actionable list
    selectedStudent,       \* session -> a student of the list, or NoStudent (null)
    showVerificationModal, \* session -> BOOLEAN
    verificationData,      \* session -> document id -> verified flag
    notification,          \* session -> the message of the last notification
    consoleLoading,        \* session -> BOOLEAN: loading
    calls,                 \* HTTP calls of the consoles awaiting their response
    nClicks,               \* clicks the admins have made
    lastSave,              \* history: the last saveVerification call that ran to its decision
    \* ---- the student store behind the REST API ----
    store,                 \* student id -> [status, attendance, documents]
    payloadHasStudentId    \* whether student payloads carry a studentId key

otpVars  == <<otpSent, otpVerified, otp, otpLoading, otpTimer, canResendOtp,
              sendOtpOk, sendOtpFallback>>
fileVars == <<formFiles, uploadedFiles, uploadStatus, pendingReads, lastUpload, nUploads>>
valVars  == <<verdict, verdictStep>>

\* the submission of the form and what it leaves in the browser
submitVars == <<loading, studentData, localStorage, lastSubmit, nMounts>>

markerVars == <<markerStudents, markerLoading, markingAttendance, markerNotification,
                nMarkerClicks>>

\* the registration page and the attendance page
pageVars == <<currentStep, formData, message, parentPhoneCountry, sameAsCorrespondence,
              inFlight, nBadEdits, otpVars, fileVars, valVars, submitVars, markerVars>>

slipVars == <<printingStudents, slipStore, lastSlip>>

\* what the verification handlers of the department console, the queue dashboard
\* and the student store leave alone
regVars == <<pageVars, slipVars, studentSlipStatus>>

queueVars == <<rosterResponse, queueStudents, queueLoading, queueError, groupedStudents,
               queueFetches, lastFetch>>

consoleVars == <<students, selectedStudent, showVerificationModal, verificationData,
                 notification, consoleLoading, calls, nClicks, lastSave>>

serverVars == <<store, payloadHasStudentId>>

\* what the handlers of the registration page leave alone
adminVars == <<queueVars, consoleVars, serverVars, submitVars, markerVars, slipVars,
               studentSlipStatus>>

vars == <<regVars, queueVars, consoleVars, serverVars>>

-----------------------------------------------------------------------------
(* Bounds of the model *)

\* edits per behaviour that write anything but the field's valid sample value
MaxBadEdits == 1

-----------------------------------------------------------------------------
(* Text helpers *)

Empty == <<>>
Blank == <<" ">>

RECURSIVE TrimLeft(_)
TrimLeft(s) == IF s # <<>> /\ Head(s) = " " THEN TrimLeft(Tail(s)) ELSE s

RECURSIVE TrimRight(_)
TrimRight(s) ==
    IF s # <<>> /\ s[Len(s)] = " " THEN TrimRight(SubSeq(s, 1, Len(s) - 1)) ELSE s

\* String.prototype.trim
trim(s) == TrimRight(TrimLeft(s))

Digits == {"0", "1", "2", "3", "4", "5", "6", "7", "8", "9"}

DigitVal(c) ==
    CASE c = "0" -> 0 [] c = "1" -> 1 [] c = "2" -> 2 [] c = "3" -> 3 [] c = "4" -> 4
      [] c = "5" -> 5 [] c = "6" -> 6 [] c = "7" -> 7 [] c = "8" -> 8 [] c = "9" -> 9

RECURSIVE DigitsValue(_, _)
DigitsValue(s, acc) ==
    IF s = <<>> THEN acc ELSE DigitsValue(Tail(s), 10 * acc + DigitVal(Head(s)))

RECURSIVE DigitPrefix(_)
DigitPrefix(s) ==
    IF s # <<>> /\ Head(s) \in Digits THEN <<Head(s)>> \o DigitPrefix(Tail(s)) ELSE <<>>

NaN == [nan |-> TRUE, val |-> 0]
Num(n) == [nan |-> FALSE, val |-> n]

\* The numeric value of a sign-and-digits literal, NaN when it is not one.
SignedLiteral(t, wholeString) ==
    LET neg  == t # <<>> /\ Head(t) = "-"
        body == IF t # <<>> /\ Head(t) \in {"-", "+"} THEN Tail(t) ELSE t
        ds   == DigitPrefix(body)
    IN  IF ds = <<>> \/ (wholeString /\ ds # body) THEN NaN
        ELSE Num(IF neg THEN 0 - DigitsValue(ds, 0) ELSE DigitsValue(ds, 0))

\* ToNumber, the coercion JavaScript applies to a string compared with a number:
\* surrounding white space is dropped, the empty string is 0, anything that is
\* not a numeric literal is NaN.  (Literals here are integers.)
ToNumber(s) == IF trim(s) = <<>> THEN Num(0) ELSE SignedLiteral(trim(s), TRUE)

\* parseFloat: leading white space is skipped and the longest numeric prefix parsed.
parseFloat(s) == SignedLiteral(TrimLeft(s), FALSE)

\* a < b and a > b on numbers: false as soon as one side is NaN
NumLt(a, b) == ~a.nan /\ ~b.nan /\ a.val < b.val
NumGt(a, b) == ~a.nan /\ ~b.nan /\ a.val > b.val
\* truthiness of a number: NaN and 0 are falsy
NumTruthy(a) == ~a.nan /\ a.val # 0

NoSpaceNoAt(s) == s # <<>> /\ \A k \in 1..Len(s) : s[k] \notin {" ", "@"}

\* /^[^\s@]+@[^\s@]+\.[^\s@]+$/.test(s)
emailRegexTest(s) ==
    \E i \in 1..Len(s) : \E j \in 1..Len(s) :
        /\ i < j
        /\ s[i] = "@"
        /\ s[j] = "."
        /\ NoSpaceNoAt(SubSeq(s, 1, i - 1))
        /\ NoSpaceNoAt(SubSeq(s, i + 1, j - 1))
        /\ NoSpaceNoAt(SubSeq(s, j + 1, Len(s)))

\* String(n) for a natural number n
RECURSIVE NatToText(_)
NatToText(n) ==
    LET d == <<"0", "1", "2", "3", "4", "5", "6", "7", "8", "9">>[(n % 10) + 1]
    IN  IF n < 10 THEN <<d>> ELSE NatToText(n \div 10) \o <<d>>

-----------------------------------------------------------------------------
(* The registration form: fields, steps and the validation rules *)

NULL == "<null>"          \* JavaScript null, as returned by validateStep

formSteps == <<"basic", "address", "academic", "subjects", "family", "university",
               "documents">>

LastStep == Len(formSteps) - 1

requiredFieldsByStep ==
    << <<"studentFullName", "gender", "dateOfBirth", "nationality", "studentContactNo",
         "studentEmail", "parentContactNo">>,
       <<"correspondenceAddress", "correspondenceCity", "correspondenceState",
         "correspondencePostalCode">>,
       <<"tenthSchoolName", "tenthBoardUniversity", "tenthPassedOutYear",
         "collegeInstitutionName", "boardUniversity", "twelfthPassedOutYear">>,
       <<"twelfthTotalMarks", "twelfthScoredMarks", "twelfthPercentage">>,
       <<"fatherName", "motherName", "fatherMobile", "motherMobile">>,
       <<"department", "programName", "admissionType", "juApplication">>,
       <<>> >>

\* requiredFieldsByStep[stepIndex] || []   (stepIndex counts from 0)
RequiredOf(stepIndex) ==
    IF stepIndex \in 0..(Len(requiredFieldsByStep) - 1)
    THEN requiredFieldsByStep[stepIndex + 1] ELSE <<>>

Range(seq) == {seq[k] : k \in 1..Len(seq)}

CorrespondenceFields == {"correspondenceAddress", "correspondenceCity",
                         "correspondenceState", "correspondenceCountry",
                         "correspondencePostalCode"}

PermanentFields == {"permanentAddress", "permanentCity", "permanentState",
                    "permanentCountry", "permanentPostalCode"}

\* the permanent-address key that mirrors a correspondence key
PermanentOf(f) ==
    CASE f = "correspondenceAddress"    -> "permanentAddress"
      [] f = "correspondenceCity"       -> "permanentCity"
      [] f = "correspondenceState"      -> "permanentState"
      [] f = "correspondenceCountry"    -> "permanentCountry"
      [] f = "correspondencePostalCode" -> "permanentPostalCode"

TextFields ==
    UNION {Range(requiredFieldsByStep[k]) : k \in 1..Len(requiredFieldsByStep)}
        \cup CorrespondenceFields \cup PermanentFields

documentFields == {"aadhaarUpload", "tenthMarksheetUpload", "twelfthMarksheetUpload",
                   "transferCertificateUpload", "conductCertificateUpload",
                   "casteCertificateUpload", "incomeCertificateUpload",
                   "photographUpload"}

Indian == <<"I", "n", "d", "i", "a", "n">>
India  == <<"I", "n", "d", "i", "a">>

\* useState({...}): the form aggregate as constructed
InitialFormData ==
    [f \in TextFields |->
        CASE f = "nationality" -> Indian
          [] f \in {"correspondenceCountry", "permanentCountry"} -> India
          [] OTHER -> Empty]

\* new Date().getFullYear()
currentYear == 2026

fieldLabels(f) ==
    CASE f = "studentFullName"          -> "Student Full Name"
      [] f = "gender"                   -> "Gender"
      [] f = "dateOfBirth"              -> "Date of Birth"
      [] f = "nationality"              -> "Nationality"
      [] f = "studentContactNo"         -> "Student Contact Number"
      [] f = "studentEmail"             -> "Student Email"
      [] f = "parentContactNo"          -> "Parent Contact Number"
      [] f = "correspondenceAddress"    -> "Correspondence Address"
      [] f = "correspondenceCity"       -> "Correspondence City"
      [] f = "correspondenceState"      -> "Correspondence State"
      [] f = "correspondencePostalCode" -> "Correspondence Postal Code"
      [] f = "tenthSchoolName"          -> "10th School Name"
      [] f = "tenthBoardUniversity"     -> "10th Board/University"
      [] f = "tenthPassedOutYear"       -> "10th Passed Out Year"
      [] f = "collegeInstitutionName"   -> "College/Institution Name"
      [] f = "boardUniversity"          -> "12th Board/University"
      [] f = "twelfthPassedOutYear"     -> "12th Passed Out Year"
      [] f = "twelfthTotalMarks"        -> "12th Total Marks"
      [] f = "twelfthScoredMarks"       -> "12th Scored Marks"
      [] f = "twelfthPercentage"        -> "12th Percentage"
      [] f = "fatherName"               -> "Father's Name"
      [] f = "motherName"               -> "Mother's Name"
      [] f = "fatherMobile"             -> "Father's Mobile"
      [] f = "motherMobile"             -> "Mother's Mobile"
      [] f = "department"               -> "Department"
      [] f = "programName"              -> "Program Name"
      [] f = "admissionType"            -> "Admission Type"
      [] f = "juApplication"            -> "JU Application Number"
      [] OTHER                          -> f

\* labels.join(', ')
RECURSIVE joinWithoutComma(_)
joinWithoutComma(labels) ==
    IF labels = <<>> THEN ""
    ELSE IF Len(labels) = 1 THEN labels[1]
    ELSE labels[1] \o " " \o joinWithoutComma(Tail(labels))

RECURSIVE join(_)
join(labels) ==
    IF labels = <<>> THEN ""
    ELSE IF Len(labels) = 1 THEN labels[1]
    ELSE labels[1] \o ", " \o join(Tail(labels))

IsMissingNoTrim(value) == value = Empty

\* !value || (typeof value === 'string' && value.trim() === '')
IsMissing(value) == value = Empty \/ trim(value) = Empty

\* the required fields of a step that are missing, in the order of the list
missingFieldsOf(fd, stepIndex) ==
    SelectSeq(RequiredOf(stepIndex), LAMBDA f : IsMissing(fd[f]))

MinPhoneLength == 10

\* the step-specific rule that fires first, or NULL
StepRuleError(fd, verified, stepIndex) ==
    CASE stepIndex = 0 ->
            IF ~verified THEN "Please verify the parent's phone number with OTP before proceeding to the next step."
            ELSE IF fd["studentEmail"] # Empty /\ ~emailRegexTest(fd["studentEmail"])
                 THEN "Please enter a valid email address."
            ELSE IF fd["studentContactNo"] # Empty
                    /\ Len(fd["studentContactNo"]) < MinPhoneLength
                 THEN "Please enter a valid contact number (at least 10 digits)."
            ELSE IF fd["parentContactNo"] # Empty
                    /\ Len(fd["parentContactNo"]) < MinPhoneLength
                 THEN "Please enter a valid parent contact number (at least 10 digits)."
            ELSE NULL
      [] stepIndex = 2 ->
            IF fd["tenthPassedOutYear"] # Empty
               /\ (\/ NumGt(ToNumber(fd["tenthPassedOutYear"]), Num(currentYear))
                   \/ NumLt(ToNumber(fd["tenthPassedOutYear"]), Num(currentYear - 15)))
            THEN "Please enter a valid 10th passed out year."
            ELSE IF fd["twelfthPassedOutYear"] # Empty
               /\ (\/ NumGt(ToNumber(fd["twelfthPassedOutYear"]), Num(currentYear))
                   \/ NumLt(ToNumber(fd["twelfthPassedOutYear"]), Num(currentYear - 10)))
            THEN "Please enter a valid 12th passed out year."
            ELSE NULL
      [] stepIndex = 3 ->
            LET totalMarks  == parseFloat(fd["twelfthTotalMarks"])
                scoredMarks == parseFloat(fd["twelfthScoredMarks"])
            IN  IF NumTruthy(totalMarks) /\ NumTruthy(scoredMarks)
                   /\ NumGt(scoredMarks, totalMarks)
                THEN "Scored marks cannot be greater than total marks."
                ELSE IF fd["twelfthPercentage"] # Empty
                        /\ (\/ NumLt(ToNumber(fd["twelfthPercentage"]), Num(0))
                            \/ NumGt(ToNumber(fd["twelfthPercentage"]), Num(100)))
                THEN "Please enter a valid percentage (0-100)."
                ELSE NULL
      [] stepIndex = 4 ->
            IF fd["fatherMobile"] # Empty /\ Len(fd["fatherMobile"]) < MinPhoneLength
            THEN "Please enter a valid father's mobile number (at least 10 digits)."
            ELSE IF fd["motherMobile"] # Empty /\ Len(fd["motherMobile"]) < MinPhoneLength
            THEN "Please enter a valid mother's mobile number (at least 10 digits)."
            ELSE NULL
      [] OTHER -> NULL

\* validateStep over an explicit snapshot
validateSnapshot(fd, verified, stepIndex) ==
    LET missingFields == missingFieldsOf(fd, stepIndex)
        ruleError     == StepRuleError(fd, verified, stepIndex)
    IN  IF ruleError # NULL THEN ruleError
        ELSE IF Len(missingFields) > 0
        THEN "Please fill in the following required fields: "
               \o join([k \in 1..Len(missingFields) |-> fieldLabels(missingFields[k])])
        ELSE NULL

\* validateStep(stepIndex), reading the component's formData and otpVerified
validateStep(stepIndex) == validateSnapshot(formData, otpVerified, stepIndex)

-----------------------------------------------------------------------------
(* Sample inputs *)

X          == <<"x">>
Y          == <<"y">>
Phone10    == <<"9", "8", "7", "6", "5", "4", "3", "2", "1", "0">>
PhoneShort == <<"9", "8", "7">>
GoodEmail  == <<"a", "@", "b", ".", "c">>
NoDotEmail == <<"a", "@", "b">>
SpaceEmail == <<"a", " ", "@", "b", ".", "c">>

PhoneFields == {"studentContactNo", "parentContactNo", "fatherMobile", "motherMobile"}

\* the values a field is fed with
Domain(f) ==
    CASE f \in PhoneFields -> {Empty, Blank, PhoneShort, Phone10}
      [] f = "studentEmail" -> {Empty, Blank, NoDotEmail, SpaceEmail, GoodEmail}
      [] f = "tenthPassedOutYear" ->
            {Empty, X, NatToText(currentYear + 1), NatToText(currentYear),
             NatToText(currentYear - 15), NatToText(currentYear - 16)}
      [] f = "twelfthPassedOutYear" ->
            {Empty, NatToText(currentYear + 1), NatToText(currentYear),
             NatToText(currentYear - 10), NatToText(currentYear - 11)}
      [] f = "twelfthTotalMarks"  -> {Empty, X, NatToText(0), NatToText(600)}
      [] f = "twelfthScoredMarks" -> {Empty, Blank, NatToText(550), NatToText(601)}
      [] f = "twelfthPercentage"  ->
            {Empty, X, <<"-", "5">>, NatToText(0), NatToText(90), NatToText(100),
             NatToText(101)}
      [] f = "nationality" -> {Empty, Blank, Indian}
      [] f \in {"correspondenceCountry", "permanentCountry"} -> {Empty, India, X}
      [] f \in CorrespondenceFields \cup PermanentFields -> {Empty, X, Y}
      [] OTHER -> {Empty, Blank, X}

\* one value per field that passes every rule of its step
Good(f) ==
    CASE f \in PhoneFields -> Phone10
      [] f = "studentEmail" -> GoodEmail
      [] f \in {"tenthPassedOutYear", "twelfthPassedOutYear"} -> NatToText(currentYear)
      [] f = "twelfthTotalMarks"  -> NatToText(600)
      [] f = "twelfthScoredMarks" -> NatToText(550)
      [] f = "twelfthPercentage"  -> NatToText(90)
      [] f = "nationality" -> Indian
      [] f \in {"correspondenceCountry", "permanentCountry"} -> India
      [] OTHER -> X

\* every snapshot that differs from base on the fields fs only, each within its domain
RECURSIVE Snapshots(_, _)
Snapshots(fs, base) ==
    IF fs = {} THEN {base}
    ELSE LET f == CHOOSE g \in fs : TRUE
         IN  UNION {Snapshots(fs \ {f}, [base EXCEPT ![f] = v]) : v \in Domain(f)}

\* the form with every field of the steps below stepIndex filled with its valid sample
FilledBelow(stepIndex) ==
    [f \in TextFields |->
        IF \E k \in 0..(stepIndex - 1) : f \in Range(RequiredOf(k))
        THEN Good(f) ELSE InitialFormData[f]]

OtpCode    == <<"1", "2", "3", "4", "5", "6">>
OtpDomain  == {Empty, Blank, OtpCode}
countryCodes == {"+91", "+1"}

MaxFileSize == 5 * 1024 * 1024
allowedTypes == {"image/jpeg", "image/png", "image/jpg", "application/pdf"}

NoFile == [filename |-> "", file_type |-> "", file_size |-> 0]
FileOf(n, t, sz) == [filename |-> n, file_type |-> t, file_size |-> sz]

\* the files a user picks
FileChoices ==
    { FileOf("marks.pdf", "application/pdf", 1000),
      FileOf("photo.jpg", "image/jpeg", MaxFileSize),
      FileOf("scan.png", "image/png", MaxFileSize + 1),
      FileOf("movie.gif", "image/gif", 10),
      FileOf("huge.gif", "image/gif", MaxFileSize + 1) }

NoUpload == [field |-> "", file |-> NoFile]

\* error texts a server puts in data.error ("" when it sends none)
ServerErrors == {"", "server says no"}

-----------------------------------------------------------------------------
(* StudentRegistration: construction *)

InitForm ==
    /\ currentStep = 0
    /\ formData = InitialFormData
    /\ formFiles = [f \in documentFields |-> NoFile]
    /\ message = ""
    /\ otpSent = FALSE
    /\ otpVerified = FALSE
    /\ otp = Empty
    /\ otpLoading = FALSE
    /\ otpTimer = 0
    /\ canResendOtp = TRUE
    /\ parentPhoneCountry = "+91"
    /\ sameAsCorrespondence = FALSE
    /\ uploadedFiles = [f \in documentFields |-> ""]
    /\ uploadStatus = [f \in documentFields |-> "none"]
    /\ pendingReads = {}
    /\ inFlight = {}
    /\ sendOtpOk = FALSE
    /\ sendOtpFallback = FALSE
    /\ lastUpload = NoUpload
    /\ verdict = "unset"
    /\ verdictStep = 0
    /\ nBadEdits = 0
    /\ nUploads = 0

\* the form as it stands when the user has filled the steps below stepIndex with valid
\* values, verified the parent's number on the way, and has arrived at stepIndex
InitAtStep(stepIndex) ==
    /\ currentStep = stepIndex
    /\ formData = FilledBelow(stepIndex)
    /\ formFiles = [f \in documentFields |-> NoFile]
    /\ message = ""
    /\ otpSent = (stepIndex > 0)
    /\ otpVerified = (stepIndex > 0)
    /\ otp = IF stepIndex > 0 THEN OtpCode ELSE Empty
    /\ otpLoading = FALSE
    /\ otpTimer = 0
    /\ canResendOtp = TRUE
    /\ parentPhoneCountry = "+91"
    /\ sameAsCorrespondence = FALSE
    /\ uploadedFiles = [f \in documentFields |-> ""]
    /\ uploadStatus = [f \in documentFields |-> "none"]
    /\ pendingReads = {}
    /\ inFlight = {}
    /\ sendOtpOk = (stepIndex > 0)
    /\ sendOtpFallback = FALSE
    /\ lastUpload = NoUpload
    /\ verdict = "unset"
    /\ verdictStep = 0
    /\ nBadEdits = 0
    /\ nUploads = 0

-----------------------------------------------------------------------------
(* StudentRegistration: form handlers *)

\* the inputs each step renders (of the modelled fields); the 12th marks inputs
\* sit on the academic step, the subject-marks step renders none of the fields
\* its validation requires
ShownFields(stepIndex) ==
    CASE stepIndex = 0 -> Range(RequiredOf(0))
      [] stepIndex = 1 -> CorrespondenceFields \cup PermanentFields
      [] stepIndex = 2 -> Range(RequiredOf(2)) \cup Range(RequiredOf(3))
      [] stepIndex = 4 -> Range(RequiredOf(4))
      [] stepIndex = 5 -> Range(RequiredOf(5))
      [] OTHER -> {}

\* an input that is rendered disabled or with a no-op onChange
InputNeverLocked(f) == f \in PermanentFields /\ sameAsCorrespondence

InputLocked(f) ==
    \/ f = "parentContactNo" /\ otpVerified
    \/ f \in PermanentFields /\ sameAsCorrespondence

handleInputChange(name, value) ==
    /\ formData' = [formData EXCEPT ![name] = value]
    /\ UNCHANGED <<currentStep, message, parentPhoneCountry, sameAsCorrespondence,
                   inFlight, otpVars, fileVars, valVars, adminVars>>

ShownOrderMarksOnFamilyStep(stepIndex) ==
    CASE stepIndex = 2 -> RequiredOf(2) \o RequiredOf(3)
      [] stepIndex = 4 -> RequiredOf(4) \o RequiredOf(3)
      [] stepIndex = 3 -> <<>>
      [] OTHER -> RequiredOf(stepIndex)

\* the validated inputs of a step, top to bottom
ShownOrder(stepIndex) ==
    CASE stepIndex = 2 -> RequiredOf(2) \o RequiredOf(3)
      [] stepIndex = 3 -> <<>>
      [] OTHER -> RequiredOf(stepIndex)

\* the values a user mistypes into a field: nothing, or one value its rules refuse
BadSamples(f) ==
    CASE f \in PhoneFields -> {Empty, PhoneShort}
      [] f = "studentEmail" -> {Empty, NoDotEmail}
      [] f \in {"tenthPassedOutYear", "twelfthPassedOutYear"} ->
            {Empty, NatToText(currentYear + 1)}
      [] f = "twelfthScoredMarks" -> {Empty, NatToText(601)}
      [] f = "twelfthPercentage"  -> {Empty, NatToText(101)}
      [] OTHER -> {Empty, Blank}

\* the user fills the step on screen from the top: the first validated input that
\* does not hold its valid sample receives it
FillField ==
    \E k \in 1..Len(ShownOrder(currentStep)) :
        LET f == ShownOrder(currentStep)[k]
        IN  /\ formData[f] # Good(f)
            /\ \A j \in 1..(k - 1) :
                 formData[ShownOrder(currentStep)[j]] = Good(ShownOrder(currentStep)[j])
            /\ ~InputLocked(f)
            /\ handleInputChange(f, Good(f))
            /\ UNCHANGED nBadEdits

\* the user types a value the rules refuse into any validated input on screen
MistypeField ==
    \E f \in Range(ShownOrder(currentStep)) : \E v \in BadSamples(f) :
        /\ ~InputLocked(f)
        /\ v # formData[f]
        /\ nBadEdits < MaxBadEdits
        /\ nBadEdits' = nBadEdits + 1
        /\ handleInputChange(f, v)

nextStepSkipsValidation ==
    /\ IF currentStep < LastStep
       THEN currentStep' = currentStep + 1 /\ message' = ""
       ELSE UNCHANGED <<currentStep, message>>
    /\ UNCHANGED <<formData, parentPhoneCountry, sameAsCorrespondence, inFlight,
                   nBadEdits, otpVars, fileVars, valVars, adminVars>>

nextStepByTwo ==
    /\ LET error == validateStep(currentStep)
       IN  IF error # NULL
           THEN message' = error /\ UNCHANGED currentStep
           ELSE IF currentStep < LastStep
           THEN currentStep' = currentStep + 2 /\ message' = ""
           ELSE UNCHANGED <<currentStep, message>>
    /\ UNCHANGED <<formData, parentPhoneCountry, sameAsCorrespondence, inFlight,
                   nBadEdits, otpVars, fileVars, valVars, adminVars>>

nextStep ==
    /\ LET error == validateStep(currentStep)
       IN  IF error # NULL
           THEN message' = error /\ UNCHANGED currentStep
           ELSE IF currentStep < LastStep
           THEN currentStep' = currentStep + 1 /\ message' = ""
           ELSE UNCHANGED <<currentStep, message>>
    /\ UNCHANGED <<formData, parentPhoneCountry, sameAsCorrespondence, inFlight,
                   nBadEdits, otpVars, fileVars, valVars, adminVars>>

prevStep ==
    /\ IF currentStep > 0
       THEN currentStep' = currentStep - 1 /\ message' = ""
       ELSE UNCHANGED <<currentStep, message>>
    /\ UNCHANGED <<formData, parentPhoneCountry, sameAsCorrespondence, inFlight,
                   nBadEdits, otpVars, fileVars, valVars, adminVars>>

\* the Next button is rendered on every step but the last
ClickNext == currentStep # LastStep /\ nextStep

\* the Previous button is disabled on the first step
ClickPrev == currentStep # 0 /\ prevStep

-----------------------------------------------------------------------------
(* StudentRegistration: OTP sub-flow *)

OtpTimerStart == 60

OtpRequest(kind, code) ==
    [kind |-> kind,
     phoneNumber |-> <<parentPhoneCountry, formData["parentContactNo"]>>,
     otp |-> code]

sendOtp ==
    IF IsMissing(formData["parentContactNo"])
    THEN /\ message' = "Please enter parent's phone number first"
         /\ UNCHANGED <<otpLoading, inFlight>>
    ELSE /\ otpLoading' = TRUE
         /\ message' = "Sending OTP..."
         /\ inFlight' = inFlight \cup {OtpRequest("send-otp", Empty)}

\* the Send OTP button: shown until an OTP was sent, disabled while a request is
\* out or the number is empty
ClickSendOtp ==
    /\ currentStep = 0
    /\ ~otpSent
    /\ ~otpLoading
    /\ formData["parentContactNo"] # Empty
    /\ sendOtp
    /\ UNCHANGED <<currentStep, formData, parentPhoneCountry, sameAsCorrespondence,
                   nBadEdits, otpSent, otpVerified, otp, otpTimer, canResendOtp,
                   sendOtpOk, sendOtpFallback, fileVars, valVars, adminVars>>

\* the send-otp request settles: "ok" (response.ok && data.success), "rejected"
\* (any other response) or "failed" (fetch or response.json() threw)
SendOtpSettles ==
    \E r \in inFlight : \E outcome \in {"ok", "rejected", "failed"} :
      \E err \in ServerErrors :
        /\ r.kind = "send-otp"
        /\ inFlight' = inFlight \ {r}
        /\ CASE outcome = "ok" ->
                  /\ otpSent' = TRUE
                  /\ otpTimer' = OtpTimerStart
                  /\ canResendOtp' = FALSE
                  /\ message' = "OTP sent successfully! Please check your phone."
                  /\ sendOtpOk' = TRUE
                  /\ UNCHANGED sendOtpFallback
             [] outcome = "rejected" ->
                  /\ message' = IF err # "" THEN err ELSE "Failed to send OTP. Please try again."
                  /\ UNCHANGED <<otpSent, otpTimer, canResendOtp, sendOtpOk,
                                 sendOtpFallback>>
             [] outcome = "failed" ->
                  /\ otpSent' = TRUE
                  /\ otpTimer' = OtpTimerStart
                  /\ canResendOtp' = FALSE
                  /\ message' = "OTP sent successfully! Please check your phone. (Demo: Use 123456)"
                  /\ sendOtpFallback' = TRUE
                  /\ UNCHANGED sendOtpOk
        /\ otpLoading' = FALSE
        /\ UNCHANGED <<currentStep, formData, parentPhoneCountry, sameAsCorrespondence,
                       nBadEdits, otpVerified, otp, fileVars, valVars, adminVars>>

\* the OTP input and the Verify and Resend buttons are rendered once an OTP was
\* sent and until it is verified
OtpEntryAlwaysShown == currentStep = 0

OtpEntryShown == currentStep = 0 /\ otpSent /\ ~otpVerified

setOtp ==
    \E code \in OtpDomain :
        /\ OtpEntryShown
        /\ code # otp
        /\ otp' = code
        /\ UNCHANGED <<currentStep, formData, message, parentPhoneCountry,
                       sameAsCorrespondence, inFlight, nBadEdits, otpSent, otpVerified,
                       otpLoading, otpTimer, canResendOtp, sendOtpOk, sendOtpFallback,
                       fileVars, valVars, adminVars>>

verifyOtpNoBlankCheck ==
    /\ otpLoading' = TRUE
    /\ message' = "Verifying OTP..."
    /\ inFlight' = inFlight \cup {OtpRequest("verify-otp", otp)}

verifyOtp ==
    IF IsMissing(otp)
    THEN /\ message' = "Please enter the OTP"
         /\ UNCHANGED <<otpLoading, inFlight>>
    ELSE /\ otpLoading' = TRUE
         /\ message' = "Verifying OTP..."
         /\ inFlight' = inFlight \cup {OtpRequest("verify-otp", otp)}

ClickVerifyOtp ==
    /\ OtpEntryShown
    /\ ~otpLoading
    /\ otp # Empty
    /\ verifyOtp
    /\ UNCHANGED <<currentStep, formData, parentPhoneCountry, sameAsCorrespondence,
                   nBadEdits, otpSent, otpVerified, otp, otpTimer, canResendOtp,
                   sendOtpOk, sendOtpFallback, fileVars, valVars, adminVars>>

VerifyOtpSettles ==
    \E r \in inFlight : \E outcome \in {"ok", "rejected", "failed"} :
      \E err \in ServerErrors :
        /\ r.kind = "verify-otp"
        /\ inFlight' = inFlight \ {r}
        /\ CASE outcome = "ok" ->
                  /\ otpVerified' = TRUE
                  /\ message' = "Parent phone number verified successfully!"
             [] outcome = "rejected" ->
                  /\ message' = IF err # "" THEN err ELSE "Invalid OTP. Please try again."
                  /\ UNCHANGED otpVerified
             [] outcome = "failed" ->
                  UNCHANGED <<otpVerified, message>>
        /\ otpLoading' = FALSE
        /\ UNCHANGED <<currentStep, formData, parentPhoneCountry, sameAsCorrespondence,
                       nBadEdits, otpSent, otp, otpTimer, canResendOtp, sendOtpOk,
                       sendOtpFallback, fileVars, valVars, adminVars>>

resendOtp ==
    IF canResendOtp
    THEN otp' = Empty /\ sendOtp
    ELSE UNCHANGED <<otp, message, otpLoading, inFlight>>

ClickResendOtp ==
    /\ OtpEntryShown
    /\ canResendOtp
    /\ ~otpLoading
    /\ resendOtp
    /\ UNCHANGED <<currentStep, formData, parentPhoneCountry, sameAsCorrespondence,
                   nBadEdits, otpSent, otpVerified, otpTimer, canResendOtp,
                   sendOtpOk, sendOtpFallback, fileVars, valVars, adminVars>>

OtpTimerTickEnablesEarly ==
    /\ otpTimer > 0
    /\ otpTimer' = otpTimer - 1
    /\ canResendOtp' = otpSent
    /\ UNCHANGED <<currentStep, formData, message, parentPhoneCountry,
                   sameAsCorrespondence, inFlight, nBadEdits, otpSent, otpVerified, otp,
                   otpLoading, sendOtpOk, sendOtpFallback, fileVars, valVars, adminVars>>

\* the countdown effect: one second passes while otpTimer > 0; the render that
\* shows 0 with an OTP sent re-enables resending
OtpTimerTick ==
    /\ otpTimer > 0
    /\ otpTimer' = otpTimer - 1
    /\ canResendOtp' = IF otpTimer - 1 = 0 /\ otpSent THEN TRUE ELSE canResendOtp
    /\ UNCHANGED <<currentStep, formData, message, parentPhoneCountry,
                   sameAsCorrespondence, inFlight, nBadEdits, otpSent, otpVerified, otp,
                   otpLoading, sendOtpOk, sendOtpFallback, fileVars, valVars, adminVars>>

\* the parent's number input, editable until the number is verified
EditParentContact ==
    \E v \in Domain("parentContactNo") :
        /\ currentStep = 0
        /\ ~InputLocked("parentContactNo")
        /\ v # formData["parentContactNo"]
        /\ handleInputChange("parentContactNo", v)
        /\ UNCHANGED nBadEdits

\* the country selector of the parent's number
setParentPhoneCountry ==
    \E code \in countryCodes :
        /\ currentStep = 0
        /\ ~otpVerified
        /\ code # parentPhoneCountry
        /\ parentPhoneCountry' = code
        /\ UNCHANGED <<currentStep, formData, message, sameAsCorrespondence, inFlight,
                       nBadEdits, otpVars, fileVars, valVars, adminVars>>

-----------------------------------------------------------------------------
(* StudentRegistration: the address block *)

copyCorrespondenceAddressKeepsCountry(same) ==
    IF same
    THEN [f \in TextFields |->
            IF \E c \in CorrespondenceFields : PermanentOf(c) = f
            THEN formData[CHOOSE c \in CorrespondenceFields : PermanentOf(c) = f]
            ELSE formData[f]]
    ELSE [f \in TextFields |->
            IF f \in PermanentFields \ {"permanentCountry"} THEN Empty ELSE formData[f]]

\* copyCorrespondenceAddress with sameAsCorrespondence = same: the new form aggregate
copyCorrespondenceAddress(same) ==
    IF same
    THEN [f \in TextFields |->
            IF \E c \in CorrespondenceFields : PermanentOf(c) = f
            THEN formData[CHOOSE c \in CorrespondenceFields : PermanentOf(c) = f]
            ELSE formData[f]]
    ELSE [f \in TextFields |->
            IF f = "permanentCountry" THEN India
            ELSE IF f \in PermanentFields THEN Empty
            ELSE formData[f]]

\* the checkbox: setSameAsCorrespondence(e.target.checked), after which the effect
\* on [sameAsCorrespondence] runs copyCorrespondenceAddress
ToggleSameAsCorrespondence ==
    /\ currentStep = 1
    /\ sameAsCorrespondence' = ~sameAsCorrespondence
    /\ formData' = copyCorrespondenceAddress(~sameAsCorrespondence)
    /\ UNCHANGED <<currentStep, message, parentPhoneCountry, inFlight, nBadEdits,
                   otpVars, fileVars, valVars, adminVars>>

\* the user types into an input of the address step
EditAddress ==
    \E f \in CorrespondenceFields \cup PermanentFields : \E v \in Domain(f) :
        /\ currentStep = 1
        /\ ~InputLocked(f)
        /\ v # formData[f]
        /\ handleInputChange(f, v)
        /\ UNCHANGED nBadEdits

-----------------------------------------------------------------------------
(* StudentRegistration: file staging *)

MaxUploads == 2

FileAccepted(file) == file.file_size <= MaxFileSize /\ file.file_type \in allowedTypes

handleFileUploadNoSizeCheck(file, fieldName) ==
    IF file = NoFile
    THEN UNCHANGED <<message, pendingReads>>
    ELSE IF file.file_type \notin allowedTypes
    THEN message' = "Please upload only JPEG, PNG, or PDF files" /\ UNCHANGED pendingReads
    ELSE /\ pendingReads' = pendingReads \cup {[field |-> fieldName, file |-> file]}
         /\ UNCHANGED message

\* handleFileUpload up to reader.readAsArrayBuffer(file)
handleFileUpload(file, fieldName) ==
    IF file = NoFile
    THEN UNCHANGED <<message, pendingReads>>
    ELSE IF file.file_size > MaxFileSize
    THEN message' = "File size should not exceed 5MB" /\ UNCHANGED pendingReads
    ELSE IF file.file_type \notin allowedTypes
    THEN message' = "Please upload only JPEG, PNG, or PDF files" /\ UNCHANGED pendingReads
    ELSE /\ pendingReads' = pendingReads \cup {[field |-> fieldName, file |-> file]}
         /\ UNCHANGED message

\* the user picks a file (or cancels the dialog) in a file input of the documents step
SelectFile ==
    \E fieldName \in documentFields : \E file \in FileChoices \cup {NoFile} :
        /\ currentStep = LastStep
        /\ nUploads < MaxUploads
        /\ nUploads' = nUploads + 1
        /\ lastUpload' = [field |-> fieldName, file |-> file]
        /\ handleFileUpload(file, fieldName)
        /\ UNCHANGED <<currentStep, formData, parentPhoneCountry, sameAsCorrespondence,
                       inFlight, nBadEdits, otpVars, formFiles, uploadedFiles,
                       uploadStatus, valVars, adminVars>>

\* reader.onload
ReaderOnload ==
    \E r \in pendingReads :
        /\ pendingReads' = pendingReads \ {r}
        /\ formFiles' = [formFiles EXCEPT ![r.field] = r.file]
        /\ uploadedFiles' = [uploadedFiles EXCEPT ![r.field] = r.file.filename]
        /\ uploadStatus' = [uploadStatus EXCEPT ![r.field] = "ready"]
        /\ message' = ""
        /\ UNCHANGED <<currentStep, formData, parentPhoneCountry, sameAsCorrespondence,
                       inFlight, nBadEdits, otpVars, lastUpload, nUploads, valVars, adminVars>>

\* reader.onerror
ReaderOnerror ==
    \E r \in pendingReads :
        /\ pendingReads' = pendingReads \ {r}
        /\ uploadStatus' = [uploadStatus EXCEPT ![r.field] = "error"]
        /\ UNCHANGED <<currentStep, formData, message, parentPhoneCountry,
                       sameAsCorrespondence, inFlight, nBadEdits, otpVars, formFiles,
                       uploadedFiles, lastUpload, nUploads, valVars, adminVars>>

-----------------------------------------------------------------------------
(* StudentRegistration: submission, the stored receipt and the status view *)

\* page loads per behaviour after the first
MaxMounts == 2

\* file selections per behaviour that ends in a submission
MaxSubmitUploads == 1

Undefined == "<undefined>"   \* JavaScript undefined

\* the keys of the receipt that the model follows
ReceiptKeys == {"name", "studentId", "juApplication", "department", "status"}

NoStudentData == [k \in ReceiptKeys |-> NULL]

\* JSON.stringify of an object: the text holds the keys whose value is not undefined
JSONstringify(obj) == {<<k, obj[k]>> : k \in {j \in DOMAIN obj : obj[j] # Undefined}}

JSONparseLosesId(text) ==
    [k \in ReceiptKeys |->
        IF k # "studentId" /\ \E pair \in text : pair[1] = k
        THEN (CHOOSE pair \in text : pair[1] = k)[2]
        ELSE Undefined]

\* JSON.parse of such a text, read through the receipt's keys: a key the text does
\* not hold reads as undefined
JSONparse(text) ==
    [k \in ReceiptKeys |->
        IF \E pair \in text : pair[1] = k
        THEN (CHOOSE pair \in text : pair[1] = k)[2]
        ELSE Undefined]

NoItem == [present |-> FALSE, text |-> {}]

\* what the server answers a registration with: data.studentId (or none), and
\* whether the answer carries the data object
ServerStudentIds == {"JU2025CSE001", Undefined}

NoSubmit == [outcome |-> "none", studentId |-> Undefined, error |-> ""]

SubmitIdle ==
    /\ loading = FALSE
    /\ studentData = NoStudentData
    /\ localStorage = NoItem
    /\ lastSubmit = NoSubmit
    /\ nMounts = 0

\* the form is rendered (no receipt) and the loading popup does not cover it
FormShown == studentData = NoStudentData /\ ~loading

\* if (studentData) return <status view>
StatusViewShown == studentData # NoStudentData

\* {studentData.studentId} in the status view
DisplayedStudentId == studentData["studentId"]

\* handleRegistration up to its fetch
handleRegistration ==
    /\ IF loading
       THEN UNCHANGED <<message, loading, inFlight, lastSubmit>>
       ELSE LET error == validateStep(currentStep)
            IN  IF error # NULL
                THEN /\ message' = error
                     /\ lastSubmit' = [NoSubmit EXCEPT !.outcome = "invalid"]
                     /\ UNCHANGED <<loading, inFlight>>
                ELSE IF IsMissing(formData["juApplication"])
                THEN /\ message' = "JU Application number is required for registration"
                     /\ lastSubmit' = [NoSubmit EXCEPT !.outcome = "invalid"]
                     /\ UNCHANGED <<loading, inFlight>>
                ELSE /\ loading' = TRUE
                     /\ message' = "Processing registration and uploading documents..."
                     /\ inFlight' = inFlight \cup {OtpRequest("register", Empty)}
                     /\ UNCHANGED lastSubmit
    /\ UNCHANGED <<currentStep, formData, parentPhoneCountry, sameAsCorrespondence,
                   nBadEdits, otpVars, fileVars, valVars, studentData, localStorage,
                   nMounts, queueVars, consoleVars, serverVars, markerVars, slipVars,
                   studentSlipStatus>>

\* the Complete Registration button replaces Next on the last step
ClickComplete ==
    /\ FormShown
    /\ currentStep = LastStep
    /\ handleRegistration

receiptWrittenOnAnyAnswer(outcome, thrown) == outcome # "failed" /\ ~thrown

\* if (response.ok && data.success), reached without an exception
receiptWritten(outcome, thrown) == outcome = "ok" /\ ~thrown

\* the rest of handleRegistration, from the response on: "ok" (response.ok &&
\* data.success), "rejected" (any other response) or "failed" (fetch or
\* response.json() threw); an ok answer without its data object, or a
\* localStorage.setItem that throws, ends in the catch branch as well
RegistrationSettles ==
    \E r \in inFlight : \E outcome \in {"ok", "rejected", "failed"} :
      \E err \in ServerErrors : \E id \in ServerStudentIds :
       \E uploadedCount \in 0..1 : \E thrown \in BOOLEAN :
        /\ r.kind = "register"
        /\ inFlight' = inFlight \ {r}
        /\ CASE receiptWritten(outcome, thrown) ->
                  LET registrationData ==
                        [name |-> "Asha", studentId |-> id, juApplication |-> "JU-APP-1",
                         department |-> "CSE", status |-> "pending"]
                  IN  /\ localStorage' = [present |-> TRUE,
                                          text |-> JSONstringify(registrationData)]
                      /\ studentData' = registrationData
                      /\ message' = IF uploadedCount > 0
                                    THEN "Registration successful! 1 documents uploaded successfully."
                                    ELSE "Registration successful!"
             [] outcome = "rejected" /\ ~thrown ->
                  /\ message' = IF err # "" THEN err
                                ELSE "Registration failed. Please try again."
                  /\ UNCHANGED <<localStorage, studentData>>
             [] OTHER ->
                  /\ message' = "Error: Unable to connect to server."
                  /\ UNCHANGED <<localStorage, studentData>>
        /\ loading' = FALSE
        /\ lastSubmit' =
              IF thrown \/ outcome = "failed"
              THEN [outcome |-> "failed", studentId |-> Undefined, error |-> ""]
              ELSE IF outcome = "ok"
              THEN [outcome |-> "ok", studentId |-> id, error |-> ""]
              ELSE [outcome |-> "rejected", studentId |-> Undefined, error |-> err]
        /\ UNCHANGED <<currentStep, formData, parentPhoneCountry, sameAsCorrespondence,
                       nBadEdits, otpVars, fileVars, valVars, nMounts, queueVars,
                       consoleVars, serverVars, markerVars, slipVars,
                   studentSlipStatus>>

\* a fresh mount of the page: every state hook starts over, callbacks of the page
\* that was left are gone, and the initialisation effect reads the stored receipt
FreshMount ==
    /\ nMounts < MaxMounts
    /\ nMounts' = nMounts + 1
    /\ currentStep' = 0
    /\ formData' = InitialFormData
    /\ formFiles' = [f \in documentFields |-> NoFile]
    /\ otpSent' = FALSE /\ otpVerified' = FALSE /\ otp' = Empty
    /\ otpLoading' = FALSE /\ otpTimer' = 0 /\ canResendOtp' = TRUE
    /\ parentPhoneCountry' = "+91"
    /\ sameAsCorrespondence' = FALSE
    /\ uploadedFiles' = [f \in documentFields |-> ""]
    /\ uploadStatus' = [f \in documentFields |-> "none"]
    /\ pendingReads' = {}
    /\ inFlight' = {}
    /\ loading' = FALSE
    /\ IF localStorage.present
       THEN /\ studentData' = JSONparse(localStorage.text)
            /\ message' = "Welcome back! Your registration details are shown below."
       ELSE /\ studentData' = NoStudentData
            /\ message' = ""
    /\ sendOtpOk' = FALSE /\ sendOtpFallback' = FALSE
    /\ UNCHANGED <<localStorage, lastSubmit, lastUpload, nUploads, nBadEdits, valVars,
                   queueVars, consoleVars, serverVars, markerVars, slipVars,
                   studentSlipStatus>>

-----------------------------------------------------------------------------
(* The validation rules engine called on its own *)

Validate ==
    /\ verdict' = validateStep(verdictStep)
    /\ UNCHANGED <<currentStep, formData, message, parentPhoneCountry,
                   sameAsCorrespondence, inFlight, nBadEdits, otpVars, fileVars,
                   verdictStep, adminVars>>

-----------------------------------------------------------------------------
(* StudentQueueDashboard (part_002) *)

\* students in one answer of GET /api/students
MaxRoster == 4

\* rows of the department cards
TopCount == 3

\* a student of the roster; registrationDate holds the value of
\* new Date(student.registrationDate), NaN for a missing or unparsable date, and ""
\* stands for a key that is absent or empty
QueueStudent(id, nm, dept, att, st, date) ==
    [studentId |-> id, name |-> nm, department |-> dept, attendance |-> att,
     status |-> st, registrationDate |-> date]

StudentProfiles ==
    {QueueStudent("Q1", "n1", "CSE", "present", "photo_uploaded", Num(30)),
     QueueStudent("Q2", "n2", "CSE", "present", "pending", Num(10)),
     QueueStudent("Q3", "n3", "CSE", "", "documents_verified", Num(20)),
     QueueStudent("Q4", "n4", "CSE", "present", "photo_uploaded", Num(40)),
     QueueStudent("Q5", "n5", "CSE", "absent", "photo_uploaded", Num(5)),
     QueueStudent("Q6", "n6", "CSE", "present", "verified", Num(5)),
     QueueStudent("Q7", "n7", "ECE", "present", "photo_uploaded", Num(15)),
     QueueStudent("Q8", "", "CSE", "present", "photo_uploaded", Num(1)),
     QueueStudent("Q9", "n9", "CSE", "present", "photo_uploaded", NaN),
     QueueStudent("", "n10", "ECE", "present", "photo_uploaded", Num(2)),
     QueueStudent("Q11", "n11", "", "present", "photo_uploaded", Num(3))}

\* the student lists a server answers with: up to MaxRoster different students, any order
RosterResponses ==
    {r \in UNION {[1..n -> StudentProfiles] : n \in 0..MaxRoster} :
        \A i \in 1..Len(r) : \A j \in 1..Len(r) : r[i] = r[j] => i = j}

IsValidStudent(student) ==
    student.studentId # "" /\ student.name # "" /\ student.department # ""

validStudents(list) == SelectSeq(list, IsValidStudent)

InQueueAlsoVerified(student) == student.attendance # "absent"

InQueue(student) == student.attendance # "absent" /\ student.status # "verified"

deptOf(student) == IF student.department # "" THEN student.department ELSE "Unknown"

\* the reduce: every queued student appended to the list of its department
groupBy(list) ==
    [dept \in {deptOf(list[k]) : k \in {i \in 1..Len(list) : InQueue(list[i])}} |->
        SelectSeq(list, LAMBDA student : InQueue(student) /\ deptOf(student) = dept)]

\* new Date(a.registrationDate) - new Date(b.registrationDate)
compareDates(a, b) ==
    IF a.registrationDate.nan \/ b.registrationDate.nan THEN NaN
    ELSE Num(a.registrationDate.val - b.registrationDate.val)

RECURSIVE insertSorted(_, _)
insertSorted(sorted, student) ==
    IF sorted = <<>> THEN <<student>>
    ELSE IF NumLt(compareDates(student, Head(sorted)), Num(0))
    THEN <<student>> \o sorted
    ELSE <<Head(sorted)>> \o insertSorted(Tail(sorted), student)

RECURSIVE stableSort(_)
stableSort(list) ==
    IF list = <<>> THEN <<>>
    ELSE insertSorted(stableSort(SubSeq(list, 1, Len(list) - 1)), list[Len(list)])

orderings(list) ==
    {p \in [1..Len(list) -> Range(list)] : Range(p) = Range(list)}

\* Array.prototype.sort with the date comparator: a stable ascending sort when the
\* comparator is consistent; when it returns NaN for some pair the order is whatever
\* the engine produces
sortOutcomes(list) ==
    IF \A k \in 1..Len(list) : ~list[k].registrationDate.nan
    THEN {stableSort(list)}
    ELSE orderings(list)

\* groupedStudents as a render can compute it from the students state
renderings(list) ==
    LET grouped == groupBy(list)
    IN  {g \in [DOMAIN grouped -> UNION {sortOutcomes(grouped[d]) : d \in DOMAIN grouped}] :
            \A d \in DOMAIN grouped : g[d] \in sortOutcomes(grouped[d])}

departments == DOMAIN groupedStudents

deptStudents(department) ==
    IF department \in departments THEN groupedStudents[department] ELSE <<>>

queueLength(department) == Len(deptStudents(department))

topThree(department) ==
    SubSeq(deptStudents(department), 1,
           IF queueLength(department) < TopCount THEN queueLength(department) ELSE TopCount)

\* the "+ n more students waiting" line: the n it shows, 0 when it is not rendered
moreWaiting(department) ==
    IF queueLength(department) > TopCount THEN queueLength(department) - TopCount ELSE 0

\* the error screen replaces the dashboard when an error is set and no student is held
ErrorScreenShown == queueError # NULL /\ queueStudents = <<>>

FetchOutcomes == {"ok", "bad-shape", "timeout", "unreachable"}

fetchErrorText(outcome) ==
    CASE outcome = "timeout"     -> "Backend connection timeout"
      [] outcome = "unreachable" -> "Cannot connect to backend server"
      [] outcome = "bad-shape"   ->
            "Backend error: Invalid data format: expected \"students\" array"

\* fetchStudents up to its await; a call starts when the one before it has settled
fetchStudents ==
    /\ queueFetches = 0
    /\ queueFetches' = 1
    /\ queueLoading' = TRUE
    /\ queueError' = NULL
    /\ UNCHANGED <<rosterResponse, queueStudents, groupedStudents, lastFetch>>
    /\ UNCHANGED <<regVars, consoleVars, serverVars>>

\* setInterval(fetchStudents, 5000)
PollInterval == fetchStudents

\* the Refresh, Retry and Retry Connection buttons
handleRefresh == fetchStudents

\* fetchStudents from the answer on
FetchStudentsSettles ==
    \E outcome \in FetchOutcomes :
        /\ queueFetches = 1
        /\ queueFetches' = 0
        /\ IF outcome = "ok"
           THEN /\ queueStudents' = validStudents(rosterResponse)
                /\ groupedStudents' \in renderings(validStudents(rosterResponse))
                /\ lastFetch' = "ok"
                /\ UNCHANGED queueError
           ELSE /\ queueError' = fetchErrorText(outcome)
                /\ queueStudents' = <<>>
                /\ groupedStudents' = <<>>
                /\ lastFetch' = "failed"
        /\ queueLoading' = FALSE
        /\ UNCHANGED rosterResponse
        /\ UNCHANGED <<regVars, consoleVars, serverVars>>

\* a page on which the dashboard is not open
QueueNotMounted ==
    /\ rosterResponse = <<>>
    /\ queueStudents = <<>>
    /\ queueLoading = TRUE
    /\ queueError = NULL
    /\ groupedStudents = <<>>
    /\ queueFetches = 0
    /\ lastFetch = "none"

\* the dashboard after its mount effect called fetchStudents, against a server that
\* holds any of the rosters
InitQueue ==
    /\ rosterResponse \in RosterResponses
    /\ queueStudents = <<>>
    /\ queueLoading = TRUE
    /\ queueError = NULL
    /\ groupedStudents = <<>>
    /\ queueFetches = 1
    /\ lastFetch = "none"

-----------------------------------------------------------------------------
(* DepartmentVerification (part_001): the verification modal and its save *)

\* clicks of the admins in one behaviour
MaxClicks == 4

Sessions == {"a1", "a2"}

StudentIds == {"S1"}

\* the student ids any store of the model holds: the keys of the per-student maps
AllStudentIds == {"S1", "S2"}

documentTypes ==
    <<[id |-> "10th_marksheet",        required |-> TRUE],
      [id |-> "12th_marksheet",        required |-> TRUE],
      [id |-> "transfer_certificate",  required |-> TRUE],
      [id |-> "character_certificate", required |-> TRUE],
      [id |-> "caste_certificate",     required |-> FALSE],
      [id |-> "income_certificate",    required |-> FALSE],
      [id |-> "domicile_certificate",  required |-> FALSE],
      [id |-> "migration_certificate", required |-> FALSE],
      [id |-> "passport_photos",       required |-> TRUE],
      [id |-> "aadhar_card",           required |-> TRUE]>>

DocIds == {documentTypes[k].id : k \in 1..Len(documentTypes)}

requiredDocs == {documentTypes[k].id : k \in {i \in 1..Len(documentTypes) : documentTypes[i].required}}

\* the check boxes the admins click in this model
ReviewedDocs == {"10th_marksheet", "aadhar_card", "caste_certificate"}

NoStudent == [student_id |-> "", studentId |-> "", status |-> "", attendance |-> "",
              admission_slip_generated |-> FALSE, admission_slip_link |-> NULL]

\* the verified flags of the default verification data
defaultData == [d \in DocIds |-> FALSE]

NewCall(session, kind, target, student, documents) ==
    [session |-> session, kind |-> kind, target |-> target, student |-> student,
     documents |-> documents, status |-> "", phase |-> "sent", ok |-> FALSE,
     list |-> {}, answer |-> defaultData, documentUrl |-> NULL, action |-> ""]

OutcomeIgnoresAnswer(call, thrown) == "ok"

\* how an awaited call ends for its caller: "failed" when fetch or response.json()
\* throws, else as the answer says
Outcome(call, thrown) ==
    IF thrown THEN "failed" ELSE IF call.ok THEN "ok" ELSE "rejected"

Settles(call, thrown) == thrown \/ call.phase = "answered"

NoSave == [session |-> "", target |-> "", documents |-> defaultData, outcome |-> "none",
           statusIssued |-> FALSE]

\* what a saveVerification call did: the map it sent, how the documents PUT ended
\* and whether it went on to call updateStudentStatus
SaveRecord(call, outcome, statusIssued) ==
    [session |-> call.session, target |-> call.target, documents |-> call.documents,
     outcome |-> outcome, statusIssued |-> statusIssued]

allRequiredVerifiedSome(documents) == \E d \in requiredDocs : documents[d] = TRUE

\* requiredDocs.every(doc => verificationData[doc.id]?.verified === true)
allRequiredVerified(documents) == \A d \in requiredDocs : documents[d] = TRUE

\* the modal is rendered, over the whole page
ModalRendered(s) == showVerificationModal[s] /\ selectedStudent[s] # NoStudent

studentsListAnyAttendance(list) ==
    {student \in list : student.status = "photo_uploaded"}

\* data.students.filter(student => student.status === 'photo_uploaded'
\*                                 && student.attendance === 'present')
studentsList(list) ==
    {student \in list : student.status = "photo_uploaded"
                         /\ student.attendance = "present"}

\* studentSlipStatus[studentId] of a student the last load did not list
NoSlip == [hasSlip |-> FALSE, slipLink |-> NULL]

\* the slipStatus object that a load builds from its filtered list
slipStatus(list) ==
    [id \in AllStudentIds |->
        IF \E student \in list : student.student_id = id
        THEN LET student == CHOOSE student \in list : student.student_id = id
             IN  [hasSlip |-> student.admission_slip_generated,
                  slipLink |-> student.admission_slip_link]
        ELSE NoSlip]

\* loadStudentsForVerification up to its await
loadStudentsForVerification(s, pending) ==
    /\ consoleLoading' = [consoleLoading EXCEPT ![s] = TRUE]
    /\ calls' = pending \cup {NewCall(s, "list", "", NoStudent, defaultData)}

\* loadStudentsForVerification from the answer on
LoadStudentsSettles ==
    \E c \in calls : \E thrown \in BOOLEAN :
        /\ c.kind = "list"
        /\ Settles(c, thrown)
        /\ calls' = calls \ {c}
        /\ CASE Outcome(c, thrown) = "ok" ->
                  /\ students' = [students EXCEPT ![c.session] = studentsList(c.list)]
                  /\ studentSlipStatus' = [studentSlipStatus EXCEPT ![c.session] =
                                              slipStatus(studentsList(c.list))]
                  /\ UNCHANGED notification
             [] Outcome(c, thrown) = "rejected" ->
                  /\ notification' = [notification EXCEPT ![c.session] = "Failed to load students"]
                  /\ UNCHANGED <<students, studentSlipStatus>>
             [] Outcome(c, thrown) = "failed" ->
                  /\ notification' = [notification EXCEPT ![c.session] = "Unable to connect to server"]
                  /\ UNCHANGED <<students, studentSlipStatus>>
        /\ consoleLoading' = [consoleLoading EXCEPT ![c.session] = FALSE]
        /\ UNCHANGED <<selectedStudent, showVerificationModal, verificationData, nClicks,
                       lastSave>>
        /\ UNCHANGED <<pageVars, slipVars, queueVars, serverVars>>

\* the Refresh button of the console, disabled while loading
ConsoleRefresh ==
    \E s \in Sessions :
        /\ ~ModalRendered(s)
        /\ ~consoleLoading[s]
        /\ nClicks < MaxClicks
        /\ nClicks' = nClicks + 1
        /\ loadStudentsForVerification(s, calls)
        /\ UNCHANGED <<students, selectedStudent, showVerificationModal, verificationData,
                       notification, lastSave>>
        /\ UNCHANGED <<regVars, queueVars, serverVars>>

\* the Verify Docs button of a row: openVerificationModal up to its await
openVerificationModal ==
    \E s \in Sessions : \E student \in students[s] :
        /\ ~ModalRendered(s)
        /\ nClicks < MaxClicks
        /\ nClicks' = nClicks + 1
        /\ selectedStudent' = [selectedStudent EXCEPT ![s] = student]
        /\ calls' = calls \cup {NewCall(s, "getDocuments", student.student_id, student,
                                        defaultData)}
        /\ UNCHANGED <<students, showVerificationModal, verificationData, notification,
                       consoleLoading, lastSave>>
        /\ UNCHANGED <<regVars, queueVars, serverVars>>

\* openVerificationModal from the answer on
OpenModalSettles ==
    \E c \in calls : \E thrown \in BOOLEAN :
        /\ c.kind = "getDocuments"
        /\ Settles(c, thrown)
        /\ calls' = calls \ {c}
        /\ verificationData' = [verificationData EXCEPT ![c.session] =
                IF Outcome(c, thrown) = "ok" THEN c.answer ELSE defaultData]
        /\ showVerificationModal' = [showVerificationModal EXCEPT ![c.session] = TRUE]
        /\ UNCHANGED <<students, selectedStudent, notification, consoleLoading, nClicks,
                       lastSave>>
        /\ UNCHANGED <<regVars, queueVars, serverVars>>

\* a check box of the modal
handleDocumentVerification ==
    \E s \in Sessions : \E documentId \in ReviewedDocs :
        /\ ModalRendered(s)
        /\ nClicks < MaxClicks
        /\ nClicks' = nClicks + 1
        /\ verificationData' = [verificationData EXCEPT ![s][documentId] = ~@]
        /\ UNCHANGED <<students, selectedStudent, showVerificationModal, notification,
                       consoleLoading, calls, lastSave>>
        /\ UNCHANGED <<regVars, queueVars, serverVars>>

\* the Save Verification button: saveVerification up to its first await
saveVerification ==
    \E s \in Sessions :
        /\ ModalRendered(s)
        /\ nClicks < MaxClicks
        /\ nClicks' = nClicks + 1
        /\ IF selectedStudent[s] = NoStudent
           THEN UNCHANGED calls
           ELSE calls' = calls \cup {NewCall(s, "putDocuments",
                                             selectedStudent[s].student_id,
                                             selectedStudent[s], verificationData[s])}
        /\ UNCHANGED <<students, selectedStudent, showVerificationModal, verificationData,
                       notification, consoleLoading, lastSave>>
        /\ UNCHANGED <<regVars, queueVars, serverVars>>

\* the tail of saveVerification: close the modal, drop the selection, reload the list
finishSave(s, text, pending) ==
    /\ notification' = [notification EXCEPT ![s] = text]
    /\ showVerificationModal' = [showVerificationModal EXCEPT ![s] = FALSE]
    /\ selectedStudent' = [selectedStudent EXCEPT ![s] = NoStudent]
    /\ loadStudentsForVerification(s, pending)

\* saveVerification from the answer of the documents PUT on, with the
\* verificationData and selectedStudent of the render that was clicked
SaveVerificationSettles ==
    \E c \in calls : \E thrown \in BOOLEAN :
        /\ c.kind = "putDocuments"
        /\ Settles(c, thrown)
        /\ CASE Outcome(c, thrown) = "ok" /\ allRequiredVerified(c.documents) ->
                  \* await updateStudentStatus(selectedStudent.studentId, ...)
                  /\ calls' = (calls \ {c}) \cup
                        {[NewCall(c.session, "putStatus", c.student.studentId, c.student,
                                  c.documents) EXCEPT !.status = "documents_verified"]}
                  /\ lastSave' = SaveRecord(c, "ok", TRUE)
                  /\ UNCHANGED <<notification, showVerificationModal, selectedStudent,
                                 consoleLoading>>
             [] Outcome(c, thrown) = "ok" /\ ~allRequiredVerified(c.documents) ->
                  /\ finishSave(c.session, "Document verification saved successfully!", calls \ {c})
                  /\ lastSave' = SaveRecord(c, "ok", FALSE)
             [] Outcome(c, thrown) # "ok" ->
                  /\ calls' = calls \ {c}
                  /\ notification' = [notification EXCEPT ![c.session] = "Failed to save verification"]
                  /\ lastSave' = SaveRecord(c, Outcome(c, thrown), FALSE)
                  /\ UNCHANGED <<showVerificationModal, selectedStudent, consoleLoading>>
        /\ UNCHANGED <<students, verificationData, nClicks>>
        /\ UNCHANGED <<regVars, queueVars, serverVars>>

\* updateStudentStatus from the answer on (it swallows every failure), and the rest
\* of saveVerification after it
updateStudentStatusSettles ==
    \E c \in calls : \E thrown \in BOOLEAN :
        /\ c.kind = "putStatus"
        /\ Settles(c, thrown)
        /\ finishSave(c.session, "All documents verified! Student registration completed.", calls \ {c})
        /\ UNCHANGED <<students, verificationData, nClicks, lastSave>>
        /\ UNCHANGED <<regVars, queueVars, serverVars>>

\* a page on which no console is open
ConsoleNotMounted ==
    /\ students = [s \in Sessions |-> {}]
    /\ selectedStudent = [s \in Sessions |-> NoStudent]
    /\ showVerificationModal = [s \in Sessions |-> FALSE]
    /\ verificationData = [s \in Sessions |-> defaultData]
    /\ notification = [s \in Sessions |-> ""]
    /\ consoleLoading = [s \in Sessions |-> FALSE]
    /\ calls = {}
    /\ nClicks = 0
    /\ lastSave = NoSave

\* the consoles after their mount effect called loadStudentsForVerification
InitConsole ==
    /\ students = [s \in Sessions |-> {}]
    /\ selectedStudent = [s \in Sessions |-> NoStudent]
    /\ showVerificationModal = [s \in Sessions |-> FALSE]
    /\ verificationData = [s \in Sessions |-> defaultData]
    /\ notification = [s \in Sessions |-> ""]
    /\ consoleLoading = [s \in Sessions |-> TRUE]
    /\ calls = {NewCall(s, "list", "", NoStudent, defaultData) : s \in Sessions}
    /\ nClicks = 0
    /\ lastSave = NoSave

-----------------------------------------------------------------------------
(* The admission slip button of the department console *)

NoSlipCall == [session |-> "", target |-> "", outcome |-> "none", action |-> "",
               documentUrl |-> NULL, opened |-> FALSE, hadSlip |-> FALSE]

isStudentVerifiedAlsoPhoto(student) ==
    student.status \in {"verified", "documents_verified", "photo_uploaded"}

\* student.status === 'verified' || student.status === 'documents_verified'
isStudentVerified(student) ==
    student.status = "verified" \/ student.status = "documents_verified"

\* studentSlipStatus[studentId]?.hasSlip || false
hasExistingSlip(s, student) == studentSlipStatus[s][student.student_id].hasSlip

\* the text and the disabled flag of the slip button of a row
getSlipButtonInfo(s, student) ==
    LET isPrinting == student.student_id \in printingStudents[s]
        canPrint == isStudentVerified(student)
        hasSlip == hasExistingSlip(s, student)
    IN  IF ~canPrint THEN [text |-> "Generate Slip", disabled |-> TRUE]
        ELSE IF isPrinting
             THEN [text |-> IF hasSlip THEN "Opening Slip..." ELSE "Generating Slip...",
                   disabled |-> TRUE]
        ELSE IF hasSlip THEN [text |-> "View Slip", disabled |-> FALSE]
        ELSE [text |-> "Generate Slip", disabled |-> FALSE]

handlePrintDocumentOpensCached(s, student) ==
    /\ printingStudents' =
          [printingStudents EXCEPT ![s] = @ \cup {student.student_id}]
    /\ notification' = [notification EXCEPT ![s] =
          IF hasExistingSlip(s, student) THEN "Opening admission slip"
          ELSE "Generating admission slip"]
    /\ calls' = IF hasExistingSlip(s, student) THEN calls
                ELSE calls \cup {NewCall(s, "printDocument", student.student_id, student,
                                         defaultData)}

\* handlePrintDocument up to its await: the request is sent whatever the slip status
handlePrintDocument(s, student) ==
    /\ printingStudents' =
          [printingStudents EXCEPT ![s] = @ \cup {student.student_id}]
    /\ notification' = [notification EXCEPT ![s] =
          IF hasExistingSlip(s, student) THEN "Opening admission slip"
          ELSE "Generating admission slip"]
    /\ calls' = calls \cup {NewCall(s, "printDocument", student.student_id, student,
                                    defaultData)}

\* a click on the slip button of a row, which the browser delivers only to an
\* enabled button
ClickSlipButton ==
    \E s \in Sessions : \E student \in students[s] :
        /\ ~ModalRendered(s)
        /\ ~getSlipButtonInfo(s, student).disabled
        /\ nClicks < MaxClicks
        /\ nClicks' = nClicks + 1
        /\ handlePrintDocument(s, student)
        /\ UNCHANGED <<students, selectedStudent, showVerificationModal, verificationData,
                       consoleLoading, lastSave>>
        /\ UNCHANGED <<pageVars, studentSlipStatus, slipStore, lastSlip, queueVars,
                       serverVars>>

removeFromPrintingOnSuccess(call, outcome) ==
    IF outcome = "ok"
    THEN [printingStudents EXCEPT ![call.session] = @ \ {call.target}]
    ELSE printingStudents

\* the finally block of handlePrintDocument, run however the call ended
removeFromPrinting(call, outcome) ==
    [printingStudents EXCEPT ![call.session] = @ \ {call.target}]

\* handlePrintDocument from the answer on; opened says whether window.open
\* returned a window
PrintDocumentSettles ==
    \E c \in calls : \E thrown \in BOOLEAN : \E opened \in BOOLEAN :
        /\ c.kind = "printDocument"
        /\ Settles(c, thrown)
        /\ Outcome(c, thrown) # "ok" => ~opened
        /\ calls' = calls \ {c}
        /\ CASE Outcome(c, thrown) = "ok" /\ opened ->
                  /\ studentSlipStatus' =
                        IF c.action = "open_new"
                        THEN [studentSlipStatus EXCEPT ![c.session][c.target] =
                                 [hasSlip |-> TRUE, slipLink |-> c.documentUrl]]
                        ELSE studentSlipStatus
                  /\ notification' = [notification EXCEPT ![c.session] =
                        IF c.action = "open_existing"
                        THEN "Admission slip opened successfully"
                        ELSE "Admission slip generated and opened successfully"]
             [] Outcome(c, thrown) = "ok" /\ ~opened ->
                  /\ notification' = [notification EXCEPT ![c.session] = "Print Once Again"]
                  /\ UNCHANGED studentSlipStatus
             [] OTHER ->
                  /\ notification' = [notification EXCEPT ![c.session] =
                                         "Failed to load document"]
                  /\ UNCHANGED studentSlipStatus
        /\ printingStudents' = removeFromPrinting(c, Outcome(c, thrown))
        /\ lastSlip' = [session |-> c.session, target |-> c.target,
                        outcome |-> Outcome(c, thrown),
                        action |-> IF Outcome(c, thrown) = "ok" THEN c.action ELSE "",
                        documentUrl |-> IF Outcome(c, thrown) = "ok" THEN c.documentUrl
                                        ELSE NULL,
                        opened |-> opened,
                        hadSlip |-> studentSlipStatus[c.session][c.target].hasSlip]
        /\ UNCHANGED <<students, selectedStudent, showVerificationModal, verificationData,
                       consoleLoading, nClicks, lastSave>>
        /\ UNCHANGED <<pageVars, slipStore, queueVars, serverVars>>

\* a page whose slip buttons were never used, and a store without slips
SlipIdle ==
    /\ printingStudents = [s \in Sessions |-> {}]
    /\ studentSlipStatus = [s \in Sessions |-> [id \in AllStudentIds |-> NoSlip]]
    /\ slipStore = [id \in AllStudentIds |-> NULL]
    /\ lastSlip = NoSlipCall

-----------------------------------------------------------------------------
(* AttendanceMarker (Admin/Attendance.js) and the two endpoints it calls *)

\* clicks on the attendance page in one behaviour
MaxMarkerClicks == 2

Marker == "marker"          \* the caller of the attendance page's requests

\* a student as GET /api/students sends it
RosterPayload(id) ==
    [studentId |-> id, status |-> store[id].status, attendance |-> store[id].attendance]

\* loadStudents up to its await
loadStudents(pending) ==
    /\ markerLoading' = TRUE
    /\ calls' = pending \cup {NewCall(Marker, "roster", "", NoStudent, defaultData)}

\* the Refresh button, disabled while loading
MarkerRefresh ==
    /\ ~markerLoading
    /\ nMarkerClicks < MaxMarkerClicks
    /\ nMarkerClicks' = nMarkerClicks + 1
    /\ loadStudents(calls)
    /\ UNCHANGED <<markerStudents, markingAttendance, markerNotification>>
    /\ UNCHANGED <<students, selectedStudent, showVerificationModal, verificationData,
                   notification, consoleLoading, nClicks, lastSave>>
    /\ UNCHANGED <<currentStep, formData, message, parentPhoneCountry,
                   sameAsCorrespondence, inFlight, nBadEdits, otpVars, fileVars, valVars,
                   submitVars, queueVars, serverVars, slipVars,
                   studentSlipStatus>>

\* loadStudents from the answer on
LoadRosterSettles ==
    \E c \in calls : \E thrown \in BOOLEAN :
        /\ c.kind = "roster"
        /\ Settles(c, thrown)
        /\ calls' = calls \ {c}
        /\ CASE Outcome(c, thrown) = "ok" ->
                  markerStudents' = c.list /\ UNCHANGED markerNotification
             [] Outcome(c, thrown) = "rejected" ->
                  markerNotification' = "Failed to load students" /\ UNCHANGED markerStudents
             [] Outcome(c, thrown) = "failed" ->
                  markerNotification' = "Unable to connect to server"
                  /\ UNCHANGED markerStudents
        /\ markerLoading' = FALSE
        /\ UNCHANGED <<markingAttendance, nMarkerClicks>>
        /\ UNCHANGED <<students, selectedStudent, showVerificationModal, verificationData,
                       notification, consoleLoading, nClicks, lastSave>>
        /\ UNCHANGED <<currentStep, formData, message, parentPhoneCountry,
                       sameAsCorrespondence, inFlight, nBadEdits, otpVars, fileVars,
                       valVars, submitVars, queueVars, serverVars, slipVars,
                   studentSlipStatus>>

markPresentAs(attendance, studentId) ==
    /\ markingAttendance' = markingAttendance \cup {studentId}
    /\ calls' = calls \cup
          {[NewCall(Marker, "markAttendance", studentId, NoStudent, defaultData)
              EXCEPT !.status = attendance]}

markPresentAbsent(studentId) == markPresentAs("absent", studentId)

\* markPresent up to its await: the request body carries status: 'present'
markPresent(studentId) == markPresentAs("present", studentId)

\* the Mark Present button of a row, disabled while the row is being marked and
\* when the row says present
ClickMarkPresent ==
    \E student \in markerStudents :
        /\ student.studentId \notin markingAttendance
        /\ student.attendance # "present"
        /\ nMarkerClicks < MaxMarkerClicks
        /\ nMarkerClicks' = nMarkerClicks + 1
        /\ markPresent(student.studentId)
        /\ UNCHANGED <<markerStudents, markerLoading, markerNotification>>
        /\ UNCHANGED <<students, selectedStudent, showVerificationModal, verificationData,
                       notification, consoleLoading, nClicks, lastSave>>
        /\ UNCHANGED <<currentStep, formData, message, parentPhoneCountry,
                       sameAsCorrespondence, inFlight, nBadEdits, otpVars, fileVars,
                       valVars, submitVars, queueVars, serverVars, slipVars,
                   studentSlipStatus>>

\* markPresent from the answer on; a success reloads the page, whose mount effect
\* calls loadStudents and whose other callbacks are gone
MarkPresentSettles ==
    \E c \in calls : \E thrown \in BOOLEAN :
        /\ c.kind = "markAttendance"
        /\ Settles(c, thrown)
        /\ CASE Outcome(c, thrown) = "ok" ->
                  /\ markerStudents' = {}
                  /\ markingAttendance' = {}
                  /\ markerNotification' = ""
                  /\ loadStudents({d \in calls : d.session # Marker})
             [] Outcome(c, thrown) = "rejected" ->
                  /\ markerNotification' = "Failed to mark attendance"
                  /\ markingAttendance' = markingAttendance \ {c.target}
                  /\ calls' = calls \ {c}
                  /\ UNCHANGED <<markerStudents, markerLoading>>
             [] Outcome(c, thrown) = "failed" ->
                  /\ markerNotification' = "Failed to mark attendance. Please try again."
                  /\ markingAttendance' = markingAttendance \ {c.target}
                  /\ calls' = calls \ {c}
                  /\ UNCHANGED <<markerStudents, markerLoading>>
        /\ UNCHANGED nMarkerClicks
        /\ UNCHANGED <<students, selectedStudent, showVerificationModal, verificationData,
                       notification, consoleLoading, nClicks, lastSave>>
        /\ UNCHANGED <<currentStep, formData, message, parentPhoneCountry,
                       sameAsCorrespondence, inFlight, nBadEdits, otpVars, fileVars,
                       valVars, submitVars, queueVars, serverVars, slipVars,
                   studentSlipStatus>>

\* a page on which no attendance marker is open
MarkerNotMounted ==
    /\ markerStudents = {}
    /\ markerLoading = TRUE
    /\ markingAttendance = {}
    /\ markerNotification = ""
    /\ nMarkerClicks = 0

-----------------------------------------------------------------------------
(* The student store behind the REST API, as the interface section of the design
   describes it: last write wins, no check of the transition *)

\* a student as the list endpoints send it
StudentPayload(id) ==
    [student_id |-> id,
     studentId |-> IF payloadHasStudentId THEN id ELSE "undefined",
     status |-> store[id].status,
     attendance |-> store[id].attendance,
     admission_slip_generated |-> slipStore[id] # NULL,
     admission_slip_link |-> slipStore[id]]

\* the verification map stored at the start: the required documents are verified, the
\* optional ones are not, and the status has not been advanced yet
RequiredVerified == [d \in DocIds |-> d \in requiredDocs]

InitStore ==
    /\ store = [id \in StudentIds |->
                  [status |-> "photo_uploaded", attendance |-> "present",
                   documents |-> RequiredVerified]]
    /\ payloadHasStudentId \in BOOLEAN

Answer(call, ok, list, answer) ==
    [call EXCEPT !.phase = "answered", !.ok = ok, !.list = list, !.answer = answer]

\* GET /api/students/department/{dept}/pending-verification
ServeStudents ==
    \E c \in calls :
        /\ c.kind = "list" /\ c.phase = "sent"
        /\ calls' = (calls \ {c}) \cup
              {Answer(c, TRUE, {StudentPayload(id) : id \in DOMAIN store}, defaultData)}
        /\ UNCHANGED <<store, payloadHasStudentId>>
        /\ UNCHANGED <<students, selectedStudent, showVerificationModal, verificationData,
                       notification, consoleLoading, nClicks, lastSave>>
        /\ UNCHANGED <<regVars, queueVars>>

\* GET /api/students/{id}/documents
ServeGetDocuments ==
    \E c \in calls :
        /\ c.kind = "getDocuments" /\ c.phase = "sent"
        /\ calls' = (calls \ {c}) \cup
              {IF c.target \in DOMAIN store
               THEN Answer(c, TRUE, {}, store[c.target].documents)
               ELSE Answer(c, FALSE, {}, defaultData)}
        /\ UNCHANGED <<store, payloadHasStudentId>>
        /\ UNCHANGED <<students, selectedStudent, showVerificationModal, verificationData,
                       notification, consoleLoading, nClicks, lastSave>>
        /\ UNCHANGED <<regVars, queueVars>>

\* PUT /api/students/{id}/documents
ServePutDocuments ==
    \E c \in calls :
        /\ c.kind = "putDocuments" /\ c.phase = "sent"
        /\ calls' = (calls \ {c}) \cup {Answer(c, c.target \in DOMAIN store, {}, defaultData)}
        /\ store' = IF c.target \in DOMAIN store
                    THEN [store EXCEPT ![c.target].documents = c.documents]
                    ELSE store
        /\ UNCHANGED payloadHasStudentId
        /\ UNCHANGED <<students, selectedStudent, showVerificationModal, verificationData,
                       notification, consoleLoading, nClicks, lastSave>>
        /\ UNCHANGED <<regVars, queueVars>>

\* PUT /api/students/{id}/status
ServePutStatus ==
    \E c \in calls :
        /\ c.kind = "putStatus" /\ c.phase = "sent"
        /\ calls' = (calls \ {c}) \cup {Answer(c, c.target \in DOMAIN store, {}, defaultData)}
        /\ store' = IF c.target \in DOMAIN store
                    THEN [store EXCEPT ![c.target].status = c.status]
                    ELSE store
        /\ UNCHANGED payloadHasStudentId
        /\ UNCHANGED <<students, selectedStudent, showVerificationModal, verificationData,
                       notification, consoleLoading, nClicks, lastSave>>
        /\ UNCHANGED <<regVars, queueVars>>

\* GET /api/students
ServeRoster ==
    \E c \in calls :
        /\ c.kind = "roster" /\ c.phase = "sent"
        /\ calls' = (calls \ {c}) \cup
              {Answer(c, TRUE, {RosterPayload(id) : id \in DOMAIN store}, defaultData)}
        /\ UNCHANGED <<store, payloadHasStudentId>>
        /\ UNCHANGED <<students, selectedStudent, showVerificationModal, verificationData,
                       notification, consoleLoading, nClicks, lastSave>>
        /\ UNCHANGED <<regVars, queueVars>>

\* POST /api/attendance/mark
ServeMarkAttendance ==
    \E c \in calls :
        /\ c.kind = "markAttendance" /\ c.phase = "sent"
        /\ calls' = (calls \ {c}) \cup {Answer(c, c.target \in DOMAIN store, {}, defaultData)}
        /\ store' = IF c.target \in DOMAIN store
                    THEN [store EXCEPT ![c.target].attendance = c.status]
                    ELSE store
        /\ UNCHANGED payloadHasStudentId
        /\ UNCHANGED <<students, selectedStudent, showVerificationModal, verificationData,
                       notification, consoleLoading, nClicks, lastSave>>
        /\ UNCHANGED <<regVars, queueVars>>

\* the link under which the store files the slip of a student
SlipLink(id) == "slip-" \o id

\* GET /api/students/{id}/print-document: the slip is generated on the first
\* request and found on the later ones
ServePrintDocument ==
    \E c \in calls :
        /\ c.kind = "printDocument" /\ c.phase = "sent"
        /\ IF c.target \notin DOMAIN store
           THEN /\ calls' = (calls \ {c}) \cup {Answer(c, FALSE, {}, defaultData)}
                /\ UNCHANGED slipStore
           ELSE IF slipStore[c.target] = NULL
           THEN /\ slipStore' = [slipStore EXCEPT ![c.target] = SlipLink(c.target)]
                /\ calls' = (calls \ {c}) \cup
                      {[Answer(c, TRUE, {}, defaultData)
                          EXCEPT !.documentUrl = SlipLink(c.target), !.action = "open_new"]}
           ELSE /\ calls' = (calls \ {c}) \cup
                      {[Answer(c, TRUE, {}, defaultData)
                          EXCEPT !.documentUrl = slipStore[c.target],
                                 !.action = "open_existing"]}
                /\ UNCHANGED slipStore
        /\ UNCHANGED <<students, selectedStudent, showVerificationModal, verificationData,
                       notification, consoleLoading, nClicks, lastSave>>
        /\ UNCHANGED <<pageVars, printingStudents, studentSlipStatus, lastSlip, queueVars,
                       serverVars>>

\* the photo-intake collaborator records a student's photo
PhotoIntake ==
    \E id \in DOMAIN store :
        /\ store[id].status = "registered"
        /\ store' = [store EXCEPT ![id].status = "photo_uploaded"]
        /\ UNCHANGED <<calls, payloadHasStudentId>>
        /\ UNCHANGED <<students, selectedStudent, showVerificationModal, verificationData,
                       notification, consoleLoading, nClicks, lastSave>>
        /\ UNCHANGED <<regVars, queueVars>>

\* any endpoint answering with an error status or success:false, nothing stored
ServerRefuses ==
    \E c \in calls :
        /\ c.phase = "sent"
        /\ calls' = (calls \ {c}) \cup {Answer(c, FALSE, {}, defaultData)}
        /\ UNCHANGED <<store, payloadHasStudentId>>
        /\ UNCHANGED <<students, selectedStudent, showVerificationModal, verificationData,
                       notification, consoleLoading, nClicks, lastSave>>
        /\ UNCHANGED <<regVars, queueVars>>

StoreIdle ==
    /\ store = [id \in StudentIds |->
                  [status |-> "photo_uploaded", attendance |-> "present",
                   documents |-> RequiredVerified]]
    /\ payloadHasStudentId = TRUE

-----------------------------------------------------------------------------
(* Specifications *)

\* the pages that a specification does not open, and the store nobody writes to
FormOnly ==
    /\ QueueNotMounted /\ ConsoleNotMounted /\ StoreIdle
    /\ SubmitIdle /\ MarkerNotMounted /\ SlipIdle

\* the registration workflow: navigation, edits of the validated fields, and the
\* OTP exchange that opens the first step
Init == InitForm /\ FormOnly

Next ==
    \/ FillField
    \/ MistypeField
    \/ ClickNext
    \/ ClickPrev
    \/ ClickSendOtp
    \/ SendOtpSettles
    \/ setOtp
    \/ ClickVerifyOtp
    \/ VerifyOtpSettles

Spec == Init /\ [][Next]_vars

\* the whole wizard: navigation and edits from the first step to the submission
InitWizard == Init

NextWizard ==
    \/ (FormShown /\ FillField)
    \/ (FormShown /\ MistypeField)
    \/ (FormShown /\ ClickNext)
    \/ (FormShown /\ ClickPrev)
    \/ ClickSendOtp
    \/ SendOtpSettles
    \/ setOtp
    \/ ClickVerifyOtp
    \/ VerifyOtpSettles
    \/ ClickComplete
    \/ RegistrationSettles

SpecWizard == InitWizard /\ [][NextWizard]_vars

\* the OTP sub-flow on the first step, with its countdown
InitOtp == InitForm /\ FormOnly

NextOtp ==
    \/ EditParentContact
    \/ setParentPhoneCountry
    \/ ClickSendOtp
    \/ SendOtpSettles
    \/ setOtp
    \/ ClickVerifyOtp
    \/ VerifyOtpSettles
    \/ ClickResendOtp
    \/ OtpTimerTick

SpecOtp == InitOtp /\ [][NextOtp]_vars

\* the address step
InitAddr == InitAtStep(1) /\ FormOnly

NextAddr == ToggleSameAsCorrespondence \/ EditAddress

SpecAddr == InitAddr /\ [][NextAddr]_vars

\* the documents step
InitFile == InitAtStep(LastStep) /\ FormOnly

NextFile == SelectFile \/ ReaderOnload \/ ReaderOnerror

SpecFile == InitFile /\ [][NextFile]_vars

\* the documents step of a filled form, its submission, and later loads of the page
InitSubmit == InitAtStep(LastStep) /\ FormOnly

NextSubmit ==
    \/ ClickComplete
    \/ RegistrationSettles
    \/ FreshMount
    \/ (FormShown /\ ClickPrev)
    \/ (FormShown /\ ClickNext)
    \/ (FormShown /\ FillField)
    \/ (FormShown /\ nUploads < MaxSubmitUploads /\ SelectFile)
    \/ ReaderOnload
    \/ ReaderOnerror

SpecSubmit == InitSubmit /\ [][NextSubmit]_vars

\* validateStep over every step index and bounded form snapshots
InitValidate ==
    /\ FormOnly
    /\ \E stepIndex \in 0..LastStep :
        /\ currentStep = 0
        /\ formData \in Snapshots(Range(RequiredOf(stepIndex)), InitialFormData)
        /\ otpVerified \in BOOLEAN
        /\ verdictStep = stepIndex
        /\ formFiles = [f \in documentFields |-> NoFile]
        /\ message = ""
        /\ otpSent = FALSE
        /\ otp = Empty
        /\ otpLoading = FALSE
        /\ otpTimer = 0
        /\ canResendOtp = TRUE
        /\ parentPhoneCountry = "+91"
        /\ sameAsCorrespondence = FALSE
        /\ uploadedFiles = [f \in documentFields |-> ""]
        /\ uploadStatus = [f \in documentFields |-> "none"]
        /\ pendingReads = {}
        /\ inFlight = {}
        /\ sendOtpOk = FALSE
        /\ sendOtpFallback = FALSE
        /\ lastUpload = NoUpload
        /\ verdict = "unset"
        /\ nBadEdits = 0
        /\ nUploads = 0

NextValidate == Validate

SpecValidate == InitValidate /\ [][NextValidate]_vars

\* the queue dashboard polling a server
InitDashboard ==
    /\ InitForm /\ SubmitIdle /\ MarkerNotMounted /\ SlipIdle
    /\ InitQueue /\ ConsoleNotMounted /\ StoreIdle

NextQueue == PollInterval \/ handleRefresh \/ FetchStudentsSettles

SpecQueue == InitDashboard /\ [][NextQueue]_vars

\* two admin sessions of the department console and the store they share
InitSessions ==
    /\ InitForm /\ SubmitIdle /\ MarkerNotMounted /\ SlipIdle
    /\ QueueNotMounted /\ InitConsole /\ InitStore

NextConsole ==
    \/ LoadStudentsSettles
    \/ openVerificationModal
    \/ OpenModalSettles
    \/ handleDocumentVerification
    \/ saveVerification
    \/ SaveVerificationSettles
    \/ updateStudentStatusSettles
    \/ ServeStudents
    \/ ServeGetDocuments
    \/ ServePutDocuments
    \/ ServePutStatus
    \/ ServerRefuses

SpecConsole == InitSessions /\ [][NextConsole]_vars

\* two sessions that open the student and save what the modal shows, on a store
\* whose student has every required document verified and the status not advanced
NextResave ==
    \/ LoadStudentsSettles
    \/ openVerificationModal
    \/ OpenModalSettles
    \/ saveVerification
    \/ SaveVerificationSettles
    \/ updateStudentStatusSettles
    \/ ServeStudents
    \/ ServeGetDocuments
    \/ ServePutDocuments
    \/ ServePutStatus
    \/ ServerRefuses

SpecResave == InitSessions /\ [][NextResave]_vars

\* clicks in the console while an attendance marker is open beside it
MaxLifecycleClicks == 3

\* one console and one attendance marker open on a student who starts anywhere
\* before the verification
InitLifecycle ==
    /\ InitForm /\ SubmitIdle /\ QueueNotMounted /\ SlipIdle
    /\ students = [s \in Sessions |-> {}]
    /\ selectedStudent = [s \in Sessions |-> NoStudent]
    /\ showVerificationModal = [s \in Sessions |-> FALSE]
    /\ verificationData = [s \in Sessions |-> defaultData]
    /\ notification = [s \in Sessions |-> ""]
    /\ consoleLoading = [s \in Sessions |-> s = "a1"]
    /\ calls = {NewCall("a1", "list", "", NoStudent, defaultData),
                NewCall(Marker, "roster", "", NoStudent, defaultData)}
    /\ nClicks = 0
    /\ lastSave = NoSave
    /\ markerStudents = {}
    /\ markerLoading = TRUE
    /\ markingAttendance = {}
    /\ markerNotification = ""
    /\ nMarkerClicks = 0
    /\ \E status \in {"registered", "photo_uploaded"} :
       \E attendance \in {"absent", "present"} :
           store = [id \in StudentIds |->
                      [status |-> status, attendance |-> attendance,
                       documents |-> RequiredVerified]]
    /\ payloadHasStudentId = TRUE

NextLifecycle ==
    \/ LoadStudentsSettles
    \/ (nClicks < MaxLifecycleClicks /\ ConsoleRefresh)
    \/ (nClicks < MaxLifecycleClicks /\ openVerificationModal)
    \/ OpenModalSettles
    \/ (nClicks < MaxLifecycleClicks /\ saveVerification)
    \/ SaveVerificationSettles
    \/ updateStudentStatusSettles
    \/ MarkerRefresh
    \/ LoadRosterSettles
    \/ ClickMarkPresent
    \/ MarkPresentSettles
    \/ ServeStudents
    \/ ServeGetDocuments
    \/ ServePutDocuments
    \/ ServePutStatus
    \/ ServeRoster
    \/ ServeMarkAttendance
    \/ PhotoIntake
    \/ ServerRefuses

SpecLifecycle == InitLifecycle /\ [][NextLifecycle]_vars

\* the statuses of the rows given to the slip button
SlipStatuses == {"registered", "photo_uploaded", "verified", "documents_verified"}

\* the row that a load made of a student
SlipRow(id, status, generated) ==
    [student_id |-> id, studentId |-> id, status |-> status, attendance |-> "present",
     admission_slip_generated |-> generated,
     admission_slip_link |-> IF generated THEN SlipLink(id) ELSE NULL]

\* one console whose list holds a row of any status, as getSlipButtonInfo and
\* handlePrintDocument take it, with the slip status that the load made of the row;
\* the store may hold a slip that was generated after the load
InitSlip ==
    /\ InitForm /\ SubmitIdle /\ MarkerNotMounted /\ QueueNotMounted
    /\ \E status \in SlipStatuses : \E generated \in BOOLEAN : \E stored \in BOOLEAN :
        /\ generated => stored
        /\ store = [id \in StudentIds |->
                      [status |-> status, attendance |-> "present",
                       documents |-> RequiredVerified]]
        /\ slipStore = [id \in AllStudentIds |->
                            IF stored /\ id \in StudentIds THEN SlipLink(id) ELSE NULL]
        /\ students = [s \in Sessions |->
              IF s = "a1" THEN {SlipRow(id, status, generated) : id \in StudentIds}
              ELSE {}]
        /\ studentSlipStatus = [s \in Sessions |->
              IF s = "a1"
              THEN slipStatus({SlipRow(id, status, generated) : id \in StudentIds})
              ELSE [id \in AllStudentIds |-> NoSlip]]
    /\ payloadHasStudentId = TRUE
    /\ selectedStudent = [s \in Sessions |-> NoStudent]
    /\ showVerificationModal = [s \in Sessions |-> FALSE]
    /\ verificationData = [s \in Sessions |-> defaultData]
    /\ notification = [s \in Sessions |-> ""]
    /\ consoleLoading = [s \in Sessions |-> FALSE]
    /\ calls = {}
    /\ nClicks = 0
    /\ lastSave = NoSave
    /\ printingStudents = [s \in Sessions |-> {}]
    /\ lastSlip = NoSlipCall

NextSlip ==
    \/ ClickSlipButton
    \/ PrintDocumentSettles
    \/ ConsoleRefresh
    \/ LoadStudentsSettles
    \/ ServePrintDocument
    \/ ServeStudents
    \/ ServerRefuses

SpecSlip == InitSlip /\ [][NextSlip]_vars

\* every document verified
AllVerified == [d \in DocIds |-> TRUE]

\* one console on a store of two students whose stored maps differ; the admin opens
\* students and saves what the modal shows
OneConsoleTwoStudents ==
    /\ InitForm /\ SubmitIdle /\ MarkerNotMounted /\ SlipIdle
    /\ students = [s \in Sessions |-> {}]
    /\ selectedStudent = [s \in Sessions |-> NoStudent]
    /\ showVerificationModal = [s \in Sessions |-> FALSE]
    /\ verificationData = [s \in Sessions |-> defaultData]
    /\ notification = [s \in Sessions |-> ""]
    /\ consoleLoading = [s \in Sessions |-> s = "a1"]
    /\ calls = {NewCall("a1", "list", "", NoStudent, defaultData)}
    /\ nClicks = 0
    /\ lastSave = NoSave
    /\ store = [id \in AllStudentIds |->
                  [status |-> "photo_uploaded", attendance |-> "present",
                   documents |-> IF id = "S1" THEN RequiredVerified ELSE AllVerified]]
    /\ payloadHasStudentId = TRUE

InitRace == OneConsoleTwoStudents /\ QueueNotMounted

NextRace ==
    \/ LoadStudentsSettles
    \/ openVerificationModal
    \/ OpenModalSettles
    \/ saveVerification
    \/ SaveVerificationSettles
    \/ updateStudentStatusSettles
    \/ ServeStudents
    \/ ServeGetDocuments
    \/ ServePutDocuments
    \/ ServePutStatus
    \/ ServerRefuses

SpecRace == InitRace /\ [][NextRace]_vars

\* the order in which the store lists its students
StoreOrder == <<"S1", "S2">>

\* a student as GET /api/students sends it to the queue dashboard
QueueRow(id) ==
    QueueStudent(id, "n-" \o id, "CSE", store[id].attendance, store[id].status, Num(10))

StoreRoster ==
    LET ids == SelectSeq(StoreOrder, LAMBDA id : id \in DOMAIN store)
    IN  [k \in 1..Len(ids) |-> QueueRow(ids[k])]

\* GET /api/students answered from the store for the fetch that is out
ServeQueueRoster ==
    /\ queueFetches = 1
    /\ rosterResponse # StoreRoster
    /\ rosterResponse' = StoreRoster
    /\ UNCHANGED <<queueStudents, queueLoading, queueError, groupedStudents, queueFetches,
                   lastFetch>>
    /\ UNCHANGED <<regVars, consoleVars, serverVars>>

\* a console and the queue dashboard on the same store
InitHandover ==
    /\ OneConsoleTwoStudents
    /\ rosterResponse = StoreRoster
    /\ queueStudents = <<>>
    /\ queueLoading = TRUE
    /\ queueError = NULL
    /\ groupedStudents = <<>>
    /\ queueFetches = 1
    /\ lastFetch = "none"

NextHandover ==
    \/ NextRace
    \/ PollInterval
    \/ ServeQueueRoster
    \/ FetchStudentsSettles

SpecHandover == InitHandover /\ [][NextHandover]_vars

\* the attendance page is the one that is open
MarkerPageOpen == ~markerLoading \/ \E c \in calls : c.session = Marker

\* the registration page is the one that is open
RegistrationPageOpen == ~MarkerPageOpen /\ ConsoleNotMounted

\* one page at a time: the registration form on its first step, the form on its
\* last step, the attendance page, or the console with its slip buttons
InitBusy ==
    \/ InitOtp
    \/ InitSubmit
    \/ InitSlip
    \/ /\ InitForm /\ SubmitIdle /\ QueueNotMounted /\ SlipIdle
       /\ students = [s \in Sessions |-> {}]
       /\ selectedStudent = [s \in Sessions |-> NoStudent]
       /\ showVerificationModal = [s \in Sessions |-> FALSE]
       /\ verificationData = [s \in Sessions |-> defaultData]
       /\ notification = [s \in Sessions |-> ""]
       /\ consoleLoading = [s \in Sessions |-> FALSE]
       /\ calls = {NewCall(Marker, "roster", "", NoStudent, defaultData)}
       /\ nClicks = 0
       /\ lastSave = NoSave
       /\ markerStudents = {}
       /\ markerLoading = TRUE
       /\ markingAttendance = {}
       /\ markerNotification = ""
       /\ nMarkerClicks = 0
       /\ \E attendance \in {"absent", "present"} :
              store = [id \in StudentIds |->
                         [status |-> "photo_uploaded", attendance |-> attendance,
                          documents |-> RequiredVerified]]
       /\ payloadHasStudentId = TRUE

NextBusy ==
    \/ (RegistrationPageOpen /\ EditParentContact)
    \/ (RegistrationPageOpen /\ ClickSendOtp)
    \/ SendOtpSettles
    \/ (RegistrationPageOpen /\ setOtp)
    \/ (RegistrationPageOpen /\ ClickVerifyOtp)
    \/ VerifyOtpSettles
    \/ (RegistrationPageOpen /\ ClickComplete)
    \/ RegistrationSettles
    \/ (RegistrationPageOpen /\ currentStep = LastStep /\ FreshMount)
    \/ MarkerRefresh
    \/ LoadRosterSettles
    \/ ClickMarkPresent
    \/ MarkPresentSettles
    \/ ClickSlipButton
    \/ PrintDocumentSettles
    \/ (~MarkerPageOpen /\ ~ConsoleNotMounted /\ ConsoleRefresh)
    \/ LoadStudentsSettles
    \/ ServeRoster
    \/ ServeMarkAttendance
    \/ ServePrintDocument
    \/ ServeStudents
    \/ ServerRefuses

\* every request that was sent resolves or is rejected: the continuation of an
\* awaited fetch is run
BusyFairness ==
    /\ WF_vars(SendOtpSettles)
    /\ WF_vars(VerifyOtpSettles)
    /\ WF_vars(RegistrationSettles)
    /\ WF_vars(LoadRosterSettles)
    /\ WF_vars(MarkPresentSettles)
    /\ WF_vars(PrintDocumentSettles)
    /\ WF_vars(LoadStudentsSettles)

SpecBusy == InitBusy /\ [][NextBusy]_vars /\ BusyFairness

-----------------------------------------------------------------------------
(* Properties of the registration form *)

\* C1: under every interleaving of Next and Previous clicks with form edits,
\* currentStep stays within 0..6.
C1_StepInRange == currentStep \in 0..6

\* C1 witness: the last step has been reached from the first one.
C1_Witness == currentStep = 6 /\ nBadEdits > 0

AllWhitespace(s) == \A k \in 1..Len(s) : s[k] = " "

\* some required field of the step is missing or blank
SomeRequiredBlank(stepIndex) ==
    \E f \in Range(requiredFieldsByStep[stepIndex + 1]) : AllWhitespace(formData[f])

IsNumber(n) == ~n.nan

\* the cross-field rules of a step, as the design states them
RulesPass(stepIndex) ==
    CASE stepIndex = 0 ->
            /\ otpVerified
            /\ emailRegexTest(formData["studentEmail"])
            /\ Len(formData["studentContactNo"]) >= 10
            /\ Len(formData["parentContactNo"]) >= 10
      [] stepIndex = 2 ->
            LET tenth   == ToNumber(formData["tenthPassedOutYear"])
                twelfth == ToNumber(formData["twelfthPassedOutYear"])
            IN  /\ IsNumber(tenth) /\ IsNumber(twelfth)
                /\ tenth.val \in (currentYear - 15)..currentYear
                /\ twelfth.val \in (currentYear - 10)..currentYear
      [] stepIndex = 3 ->
            LET total  == ToNumber(formData["twelfthTotalMarks"])
                scored == ToNumber(formData["twelfthScoredMarks"])
                pct    == ToNumber(formData["twelfthPercentage"])
            IN  /\ IsNumber(total) /\ IsNumber(scored) /\ IsNumber(pct)
                /\ scored.val <= total.val
                /\ pct.val \in 0..100
      [] stepIndex = 4 ->
            /\ Len(formData["fatherMobile"]) >= 10
            /\ Len(formData["motherMobile"]) >= 10
      [] OTHER -> TRUE

\* C2: for every step index 0..6 and every form snapshot, validateStep returns a
\* message when some required field of the step is missing or blank after
\* trimming, and null when all of them are filled and the step's rules pass.
C2_ValidateVerdict ==
    verdict # "unset" =>
        /\ SomeRequiredBlank(verdictStep) => verdict # NULL
        /\ (~SomeRequiredBlank(verdictStep) /\ RulesPass(verdictStep)) => verdict = NULL

\* C2 witness: the identity step validated to null, with the verification flag
\* set and every field filled.
C2_Witness ==
    /\ verdict = NULL
    /\ verdictStep = 0
    /\ ~SomeRequiredBlank(0)

\* C3 as amended: otpVerified is set only after a send-otp request of the session
\* has marked the OTP as sent, by a success response or by the fallback of the
\* catch branch.
C3_VerifiedOnlyAfterSent ==
    otpVerified => (otpSent /\ (sendOtpOk \/ sendOtpFallback))

\* C3 as stated: otpVerified is set only after a send-otp request of the session
\* completed successfully.
C3_Original == otpVerified => sendOtpOk

\* C3 witness: the number is verified in a session whose only send-otp requests
\* ended in the fallback.
C3_Witness == otpVerified /\ sendOtpFallback /\ ~sendOtpOk

TurnedOn  == ~sameAsCorrespondence /\ sameAsCorrespondence'
TurnedOff == sameAsCorrespondence /\ ~sameAsCorrespondence'

MirrorsCorrespondence ==
    /\ formData'["permanentAddress"]    = formData["correspondenceAddress"]
    /\ formData'["permanentCity"]       = formData["correspondenceCity"]
    /\ formData'["permanentState"]      = formData["correspondenceState"]
    /\ formData'["permanentCountry"]    = formData["correspondenceCountry"]
    /\ formData'["permanentPostalCode"] = formData["correspondencePostalCode"]

OnlyPermanentChanges ==
    \A f \in DOMAIN formData :
        f \notin {"permanentAddress", "permanentCity", "permanentState",
                  "permanentCountry", "permanentPostalCode"}
            => formData'[f] = formData[f]

C7_MirrorKept ==
    sameAsCorrespondence =>
        /\ formData["permanentAddress"]    = formData["correspondenceAddress"]
        /\ formData["permanentCity"]       = formData["correspondenceCity"]
        /\ formData["permanentState"]      = formData["correspondenceState"]
        /\ formData["permanentCountry"]    = formData["correspondenceCountry"]
        /\ formData["permanentPostalCode"] = formData["correspondencePostalCode"]

FiveMB == 5 * 1024 * 1024

Acceptable(file) ==
    /\ file.file_size <= FiveMB
    /\ file.file_type \in {"image/jpeg", "image/jpg", "image/png", "application/pdf"}

\* what a file selection does at once
SelectionEffect ==
    LET f == lastUpload'.field
        x == lastUpload'.file
    IN  /\ inFlight' = inFlight
        /\ formData' = formData
        /\ formFiles' = formFiles
        /\ uploadedFiles' = uploadedFiles
        /\ IF x = NoFile
           THEN pendingReads' = pendingReads /\ message' = message
           ELSE IF Acceptable(x)
           THEN pendingReads' = pendingReads \cup {[field |-> f, file |-> x]}
           ELSE /\ pendingReads' = pendingReads
                /\ message' = IF x.file_size > FiveMB
                              THEN "File size should not exceed 5MB"
                              ELSE "Please upload only JPEG, PNG, or PDF files"

\* what a settling read does: it stages its file under its field, or stages nothing
SettleEffect ==
    \E r \in pendingReads :
        /\ pendingReads' = pendingReads \ {r}
        /\ Acceptable(r.file)
        /\ inFlight' = inFlight
        /\ formData' = formData
        /\ \/ /\ uploadedFiles' = [uploadedFiles EXCEPT ![r.field] = r.file.filename]
              /\ formFiles' = [formFiles EXCEPT ![r.field] = r.file]
           \/ /\ uploadedFiles' = uploadedFiles
              /\ formFiles' = formFiles

NextStepEffect ==
    LET error == validateStep(currentStep)
    IN  /\ error # NULL =>
            /\ currentStep' = currentStep
            /\ formData' = formData
            /\ message' = error
        /\ error = NULL =>
            /\ currentStep' = IF currentStep < 6 THEN currentStep + 1 ELSE 6
            /\ formData' = formData
            /\ message' = ""

\* C10: nextStep validates the current step; when validation fails, currentStep
\* and the form data are unchanged and the message is the validation error; when
\* it passes, currentStep increases by exactly one (capped at 6) and the message
\* is cleared.
C10_NextStepValidates == [][ClickNext => NextStepEffect]_vars

\* C10 witness: Next was clicked successfully on the first step and refused on the
\* second, whose error is on screen.
C10_Witness ==
    /\ currentStep = 1
    /\ validateStep(1) # NULL
    /\ message = validateStep(1)

-----------------------------------------------------------------------------
(* Properties of the department console, the student store and the queue dashboard *)

EveryRequiredVerified(documents) ==
    \A k \in 1..Len(documentTypes) :
        documentTypes[k].required => documents[documentTypes[k].id] = TRUE

\* C4 as amended: a saveVerification call issues the status-transition request to
\* documents_verified if and only if its documents PUT was answered with success and
\* every document type with required:true is verified in the map it sent.
C4_StatusIffSavedAndComplete ==
    lastSave # NoSave =>
        (lastSave.statusIssued <=>
            (lastSave.outcome = "ok" /\ EveryRequiredVerified(lastSave.documents)))

\* C4 as stated: a saveVerification call issues the status-transition request if
\* and only if every document type with required:true is verified in the map the
\* console held when it was called.
C4_Original ==
    lastSave # NoSave =>
        (lastSave.statusIssued <=> EveryRequiredVerified(lastSave.documents))

\* C4 witness: a save of a complete map was answered with success and its
\* status-transition request is on its way, after more than two clicks in the consoles.
C4_Witness ==
    /\ lastSave.statusIssued
    /\ nClicks > 2
    /\ \E c \in calls : c.kind = "putStatus" /\ c.status = "documents_verified"
                         /\ c.session = lastSave.session

\* C5: in every state of the store, a student whose status is documents_verified
\* has every required document verified, whatever the interleaving of the sessions'
\* document saves and status transitions.
C5_VerifiedHasRequiredDocuments ==
    \A id \in DOMAIN store :
        store[id].status = "documents_verified" =>
            EveryRequiredVerified(store[id].documents)

AllDepartments == {"CSE", "ECE"}

\* the students of a list that belong to a department and are neither absent nor verified
Awaiting(list, department) ==
    {list[k] : k \in {i \in 1..Len(list) :
        /\ list[i].department = department
        /\ list[i].attendance # "absent"
        /\ list[i].status # "verified"}}

HasIdAndName(student) == student.studentId # "" /\ student.name # ""

DatesValid(queue) == \A k \in 1..Len(queue) : ~queue[k].registrationDate.nan

\* no student stands before one with an earlier registration timestamp
Ascending(queue) ==
    \A i \in 1..Len(queue) : \A j \in 1..Len(queue) :
        i < j => ~NumGt(queue[i].registrationDate, queue[j].registrationDate)

FirstThree(queue) == [k \in 1..(IF Len(queue) < 3 THEN Len(queue) ELSE 3) |-> queue[k]]

\* the card of a department shows the first three of its queue, and the remainder
\* as the queue length minus three when more than three are queued
CardShows(department) ==
    /\ topThree(department) = FirstThree(deptStudents(department))
    /\ Len(deptStudents(department)) > 3 =>
            moreWaiting(department) = Len(deptStudents(department)) - 3

\* C8 as amended: for every student list the server returns, the queue of a
\* department holds exactly the students of that department that carry a student
\* id and a name, are not absent and are not verified; it is in ascending order of
\* registration timestamp when each of them has a valid one; the card shows the
\* first three and the remainder as queue length minus three.
C8_QueueProjection ==
    lastFetch = "ok" =>
        \A department \in AllDepartments :
            LET queue == deptStudents(department)
                expected == {student \in Awaiting(rosterResponse, department) :
                                HasIdAndName(student)}
            IN  /\ Range(queue) = expected
                /\ Len(queue) = Cardinality(expected)
                /\ DatesValid(queue) => Ascending(queue)
                /\ CardShows(department)

\* C8 as stated: the queue of a department holds exactly the students of that
\* department that are not absent and not verified, in ascending order of
\* registration timestamp; the card shows the first three and the remainder.
C8_Original ==
    lastFetch = "ok" =>
        \A department \in AllDepartments :
            LET queue == deptStudents(department)
                expected == Awaiting(rosterResponse, department)
            IN  /\ Range(queue) = expected
                /\ Len(queue) = Cardinality(expected)
                /\ Ascending(queue)
                /\ CardShows(department)

\* C8 witness: four students of one department are queued from a list that was not
\* in registration order, three are shown and one is reported as waiting.
C8_Witness ==
    /\ lastFetch = "ok"
    /\ queueLength("CSE") = 4
    /\ Len(topThree("CSE")) = 3
    /\ moreWaiting("CSE") = 1
    /\ NumGt(rosterResponse[1].registrationDate, rosterResponse[2].registrationDate)
    /\ DatesValid(deptStudents("CSE"))

-----------------------------------------------------------------------------
(* Properties of the OTP exchange *)

SendIssued   == \E r \in inFlight' \ inFlight : r.kind = "send-otp"
SendSettled  == \E r \in inFlight \ inFlight' : r.kind = "send-otp"
VerifySettled == \E r \in inFlight \ inFlight' : r.kind = "verify-otp"

AnnouncesOtpSent(text) ==
    text \in {"OTP sent successfully! Please check your phone.",
              "OTP sent successfully! Please check your phone. (Demo: Use 123456)"}

ResendIssuedAfterCountdown ==
    (otpSent /\ SendIssued) => (otpTimer = 0 /\ canResendOtp /\ otp' = Empty)

\* C11 as amended: while the countdown runs resending is disabled; a send request
\* of a session that already has an OTP sent (a resend) is issued only with the
\* countdown at 0; a resend that ends with the OTP marked as sent restarts the
\* countdown at 60 with resending disabled, and a resend the server rejects
\* leaves the countdown at 0 and resending enabled.
C11_ResendCooldown ==
    /\ [](otpTimer > 0 => ~canResendOtp)
    /\ [][ResendIssuedAfterCountdown]_vars
    /\ [][(otpSent /\ SendSettled) =>
            IF AnnouncesOtpSent(message')
            THEN otpTimer' = OtpTimerStart /\ ~canResendOtp'
            ELSE otpTimer' = 0 /\ canResendOtp' /\ UNCHANGED <<otpTimer, canResendOtp>>]_vars

\* C11 as stated: while the countdown runs resending is disabled; a resend request
\* is issued only with the countdown at 0, and it restarts the countdown at 60.
C11_Original ==
    /\ [](otpTimer > 0 => ~canResendOtp)
    /\ [][ResendIssuedAfterCountdown]_vars
    /\ [][(otpSent /\ SendSettled) => otpTimer' = OtpTimerStart]_vars

\* C11 witness: a second send request of the session (a resend, the first having
\* marked the OTP as sent) has just restarted the countdown.
C11_Witness ==
    /\ sendOtpOk /\ sendOtpFallback
    /\ otpTimer = OtpTimerStart
    /\ ~canResendOtp
    /\ otp = Empty

\* C12: once otpVerified is true it stays true, and no step changes
\* formData.parentContactNo or the parent phone country code from then on.
C12_VerifiedNumberImmutable ==
    [][otpVerified =>
        /\ otpVerified'
        /\ formData'["parentContactNo"] = formData["parentContactNo"]
        /\ parentPhoneCountry' = parentPhoneCountry]_vars

\* C12 witness: a number entered with a non-default country code is verified and
\* the countdown has run out since.
C12_Witness ==
    /\ otpVerified
    /\ formData["parentContactNo"] # Empty
    /\ parentPhoneCountry # "+91"
    /\ otpTimer = 0

-----------------------------------------------------------------------------
(* Properties of the submission and of the stored receipt *)

RegistrationSettled == \E r \in inFlight \ inFlight' : r.kind = "register"

Refused == lastSubmit' # lastSubmit /\ lastSubmit'.outcome # "ok"

\* C14: a submission that fails (refused by the validation, rejected by the
\* server, or ended by an exception) happens on the documents step and leaves the
\* step, the form data, the stored item and studentData as they were, with no
\* receipt stored and studentData null; a rejection that carries an error text
\* shows that text, and an exception shows the unable-to-connect message.
C14_FailedSubmissionStays ==
    [][Refused =>
        /\ currentStep = LastStep
        /\ UNCHANGED <<currentStep, formData, formFiles, localStorage, studentData>>
        /\ localStorage = NoItem
        /\ studentData = NoStudentData
        /\ (lastSubmit'.outcome = "rejected" /\ lastSubmit'.error # "" =>
                message' = lastSubmit'.error)
        /\ (lastSubmit'.outcome = "failed" =>
                message' = "Error: Unable to connect to server.")]_vars

\* C14 witness: the server rejected a submission with an error text, files being
\* staged in the form.
C14_Witness ==
    /\ lastSubmit.outcome = "rejected"
    /\ lastSubmit.error # ""
    /\ message = lastSubmit.error
    /\ \E f \in documentFields : formFiles[f] # NoFile

\* C15: once a registration succeeded, the stored item is a receipt that holds the
\* studentId the server returned; from then on, and after every later fresh mount,
\* the component renders the status view instead of the form and displays that
\* studentId.
C15_ReceiptRoundTrip ==
    lastSubmit.outcome = "ok" =>
        /\ localStorage.present
        /\ (lastSubmit.studentId # Undefined =>
                <<"studentId", lastSubmit.studentId>> \in localStorage.text)
        /\ StatusViewShown
        /\ DisplayedStudentId = lastSubmit.studentId

\* C15 witness: the page was loaded afresh after a registration that returned a
\* studentId, and the status view shows it.
C15_Witness ==
    /\ lastSubmit.outcome = "ok"
    /\ lastSubmit.studentId # Undefined
    /\ nMounts > 0
    /\ StatusViewShown
    /\ DisplayedStudentId = lastSubmit.studentId
    /\ message = "Welcome back! Your registration details are shown below."

-----------------------------------------------------------------------------
(* Properties of the student lifecycle *)

\* C16: after every load of the department console each student in its list has
\* status photo_uploaded and attendance present, whatever the server stores
C16_ListOnlyActionable ==
    \A s \in Sessions : \A student \in students[s] :
        student.status = "photo_uploaded" /\ student.attendance = "present"

\* a console lists the student after a load that followed a successful marking
\* of the attendance, the console having been refreshed at least once
C16_Witness ==
    /\ students["a1"] # {}
    /\ ~consoleLoading["a1"]
    /\ nClicks > 0
    /\ nMarkerClicks > 0
    /\ markerNotification = ""
    /\ \E student \in markerStudents : student.attendance = "present"

\* C17: on a store whose student has every required document verified and the
\* status still photo_uploaded, every save of the re-opened student that the server
\* accepts re-issues the status-transition request, and however often the student
\* is re-opened and saved the stored verification map stays what it was and the
\* status is either what it was or documents_verified.
C17_ResaveIdempotent ==
    /\ [](lastSave.outcome = "ok" => lastSave.statusIssued)
    /\ [][\A id \in DOMAIN store :
            /\ store'[id].documents = store[id].documents
            /\ store'[id].status \in {store[id].status, "documents_verified"}]_vars

\* a step of the store that takes no student back
NothingReversed ==
    \A id \in DOMAIN store :
        /\ store[id].status = "documents_verified" =>
              store'[id].status = "documents_verified"
        /\ store[id].status = "photo_uploaded" => store'[id].status # "registered"
        /\ store[id].attendance = "present" => store'[id].attendance = "present"

\* C18: every status write the console issues carries documents_verified and every
\* attendance write the marker issues carries present, and under any sequence of
\* console and attendance-marker actions no student's status goes back from
\* documents_verified and no attendance goes back from present.
C18_NoTransitionReversed ==
    /\ [](\A c \in calls :
            /\ c.kind = "putStatus" => c.status = "documents_verified"
            /\ c.kind = "markAttendance" => c.status = "present")
    /\ [][NothingReversed]_vars

\* the student was marked present and then verified, and both pages have since
\* reloaded their lists
C18_Witness ==
    /\ \A id \in DOMAIN store :
          store[id].status = "documents_verified" /\ store[id].attendance = "present"
    /\ lastSave.statusIssued
    /\ nMarkerClicks > 0
    /\ ~markerLoading /\ markerNotification = ""
    /\ ~consoleLoading["a1"] /\ students["a1"] = {}
    /\ calls = {}

-----------------------------------------------------------------------------
(* Properties of the admission slip button *)

\* C19: the slip button of a row is disabled for every status other than verified
\* and documents_verified, and every print-document request was issued for a row
\* whose status is verified or documents_verified.
C19_SlipEnabledOnlyVerified ==
    /\ \A s \in Sessions : \A student \in students[s] :
          student.status \notin {"verified", "documents_verified"} =>
              getSlipButtonInfo(s, student).disabled
    /\ \A c \in calls :
          c.kind = "printDocument" =>
              c.student.status \in {"verified", "documents_verified"}

\* the button of a row with status verified was clicked and is disabled while its
\* request is on its way
C19_Witness ==
    \E c \in calls :
        /\ c.kind = "printDocument"
        /\ c.student.status = "verified"
        /\ c.student \in students[c.session]
        /\ getSlipButtonInfo(c.session, c.student).disabled

\* the step is a click that handlePrintDocument handled for student id in session s
PrintClicked(s, id) ==
    /\ id \notin printingStudents[s]
    /\ id \in printingStudents'[s]

\* the step is the end of a handlePrintDocument call for student id in session s
PrintSettled(s, id) ==
    /\ id \in printingStudents[s]
    /\ id \notin printingStudents'[s]

\* the step is the success branch of a load of the list in session s
ListLoaded(s) ==
    \E c \in calls \ calls' : c.kind = "list" /\ c.session = s /\ ~consoleLoading'[s]

-----------------------------------------------------------------------------
(* Further properties of the validation rules engine *)

\* the scored marks of the form exceed its total marks, both being numbers
ScoredExceedsTotal ==
    NumGt(parseFloat(formData["twelfthScoredMarks"]),
          parseFloat(formData["twelfthTotalMarks"]))

\* the percentage of the form is a number below 0 or above 100
PercentageOutOfRange ==
    \/ NumLt(ToNumber(formData["twelfthPercentage"]), Num(0))
    \/ NumGt(ToNumber(formData["twelfthPercentage"]), Num(100))

\* C21: for every pair of total and scored marks the validation of the marks step
\* returns a message whenever the scored marks exceed the total marks, and for
\* every percentage it returns a message whenever the percentage is below 0 or
\* above 100.
C21_MarksRulesFail ==
    verdict # "unset" /\ verdictStep = 3 =>
        /\ ScoredExceedsTotal => verdict # NULL
        /\ PercentageOutOfRange => verdict # NULL

\* the labels of the required fields of a step that are blank, in the order of the
\* step's list, each but the last followed by a comma and a space
RECURSIVE BlankLabels(_)
BlankLabels(fields) ==
    IF fields = <<>> THEN ""
    ELSE LET rest == BlankLabels(Tail(fields))
         IN  IF ~AllWhitespace(formData[Head(fields)]) THEN rest
             ELSE IF rest = "" THEN fieldLabels(Head(fields))
             ELSE fieldLabels(Head(fields)) \o ", " \o rest

\* the single aggregated message for the step
AggregatedMessage(stepIndex) ==
    "Please fill in the following required fields: "
        \o BlankLabels(requiredFieldsByStep[stepIndex + 1])

\* C22 as amended: whenever at least one required field of the validated step is
\* missing or blank after trimming, validateStep returns the message of the step's
\* own rule when one fires (OTP not verified, e-mail, phone length, year, marks,
\* percentage), and otherwise the single aggregated message that lists the labels
\* of all missing required fields of the step, joined by commas.
C22_AggregatedUnlessRuleFires ==
    verdict # "unset" /\ SomeRequiredBlank(verdictStep) =>
        IF StepRuleError(formData, otpVerified, verdictStep) # NULL
        THEN verdict = StepRuleError(formData, otpVerified, verdictStep)
        ELSE verdict = AggregatedMessage(verdictStep)

\* C22 as stated: whenever at least one required field of the validated step is
\* missing or blank after trimming, validateStep returns the aggregated message.
C22_Original ==
    verdict # "unset" /\ SomeRequiredBlank(verdictStep) =>
        verdict = AggregatedMessage(verdictStep)

\* the marks step was validated with two of its fields blank and returned the
\* aggregated message naming both
C22_Witness ==
    /\ verdictStep = 3
    /\ AllWhitespace(formData["twelfthTotalMarks"])
    /\ AllWhitespace(formData["twelfthScoredMarks"])
    /\ ~AllWhitespace(formData["twelfthPercentage"])
    /\ verdict = "Please fill in the following required fields: "
                    \o "12th Total Marks, 12th Scored Marks"

-----------------------------------------------------------------------------
(* Further properties of the department console *)

\* C23: a step that issues a status-transition request ends a documents PUT of the
\* same session for the same student that was answered with success, and a
\* saveVerification call whose documents PUT failed or was rejected issues no
\* status-transition request.
C23_StatusAfterDocumentsSaved ==
    /\ [][\A c \in calls' \ calls :
            c.kind = "putStatus" /\ c.phase = "sent" =>
                \E d \in calls \ calls' :
                    /\ d.kind = "putDocuments"
                    /\ d.session = c.session
                    /\ d.student = c.student
                    /\ d.phase = "answered" /\ d.ok]_vars
    /\ [](lastSave.outcome \in {"rejected", "failed"} => ~lastSave.statusIssued)

\* the documents PUT of a complete map was refused or lost, and the console has no
\* status-transition request on its way
C23_Witness ==
    /\ lastSave.outcome \in {"rejected", "failed"}
    /\ EveryRequiredVerified(lastSave.documents)
    /\ \A c \in calls : c.kind # "putStatus"
    /\ \A id \in DOMAIN store : store[id].status = "photo_uploaded"

-----------------------------------------------------------------------------
(* Properties of the busy flags *)

\* the step ends the awaited request r of the registration page
RequestResolved(r) == r \in inFlight /\ r \notin inFlight'

\* the step ends the awaited call c of the console or of the attendance page
CallResolved(c) ==
    /\ c \in calls
    /\ \A d \in calls' :
          ~(d.session = c.session /\ d.kind = c.kind /\ d.target = c.target)

\* C24: the step in which a register, send-OTP, verify-OTP, mark-present,
\* print-slip or list-load request resolves, with success, server failure or
\* network failure, clears the busy flag of the operation, and every busy flag
\* that is set is cleared later on.
C24_BusyFlagsCleared ==
    /\ [][\A r \in inFlight :
            RequestResolved(r) =>
                /\ r.kind = "register" => ~loading'
                /\ r.kind \in {"send-otp", "verify-otp"} => ~otpLoading']_vars
    /\ [][\A c \in calls :
            CallResolved(c) =>
                /\ c.kind = "markAttendance" => c.target \notin markingAttendance'
                /\ c.kind = "printDocument" =>
                      c.target \notin printingStudents'[c.session]
                /\ c.kind = "roster" => ~markerLoading'
                /\ c.kind = "list" => ~consoleLoading'[c.session]]_vars
    /\ loading ~> ~loading
    /\ otpLoading ~> ~otpLoading
    /\ \A id \in StudentIds : (id \in markingAttendance) ~> (id \notin markingAttendance)
    /\ \A s \in Sessions : \A id \in StudentIds :
          (id \in printingStudents[s]) ~> (id \notin printingStudents[s])
    /\ (MarkerPageOpen /\ markerLoading) ~> ~markerLoading
    /\ \A s \in Sessions : consoleLoading[s] ~> ~consoleLoading[s]

\* a slip request ended in a failure and left the console with no busy flag set
C24_Witness ==
    /\ lastSlip.outcome \in {"rejected", "failed"}
    /\ printingStudents[lastSlip.session] = {}
    /\ ~consoleLoading[lastSlip.session]
    /\ calls = {}

-----------------------------------------------------------------------------
(* Properties of the verification modal *)

\* C25: every answer of a documents load that the console applies is the answer
\* for the student that is selected at that time, and every documents PUT carries
\* the map of the modal under the id of the selected student, so that no student's
\* map is saved under another student's id, in whatever order the answers of two
\* loads arrive.
C25_MapOfSelectedStudent ==
    /\ [][\A c \in calls :
            c.kind = "getDocuments" /\ CallResolved(c) =>
                c.target = selectedStudent[c.session].student_id]_vars
    /\ [][\A c \in calls' \ calls :
            c.kind = "putDocuments" /\ c.phase = "sent" =>
                /\ c.target = selectedStudent[c.session].student_id
                /\ c.documents = verificationData[c.session]]_vars

\* the map stored for S1 is on its way to the server under the id of S2
MapSavedUnderOtherId ==
    \E c \in calls :
        /\ c.kind = "putDocuments"
        /\ c.target = "S2"
        /\ c.documents = RequiredVerified
        /\ store["S2"].documents = AllVerified

\* C26: within one saveVerification call the status request goes to the student
\* identifier that the documents PUT before it went to.
C26_StatusTargetsSavedStudent ==
    [][\A c \in calls' \ calls :
          c.kind = "putStatus" /\ c.phase = "sent" =>
              \E d \in calls \ calls' :
                  /\ d.kind = "putDocuments"
                  /\ d.session = c.session
                  /\ d.target = c.target]_vars

\* C27: the console shows the notification that all documents are verified and the
\* registration is completed only when the status request was answered with
\* success; a status request that failed or was rejected is never reported so.
C27_CompletedOnlyAfterStatusSuccess ==
    [][\A c \in calls :
          /\ c.kind = "putStatus"
          /\ CallResolved(c)
          /\ notification'[c.session] =
                "All documents verified! Student registration completed."
          => c.phase = "answered" /\ c.ok]_vars

-----------------------------------------------------------------------------
(* Further properties of the OTP sub-flow *)

\* C28: in every state where otpVerified is true the parent contact number and the
\* country code of the form are the number that the verify-OTP request carried
\* whose success set otpVerified: they equal it when the success arrives, also when
\* the number was edited while the request was out, and they do not change later.
C28_VerifiedNumberIsFormNumber ==
    /\ [][\A r \in inFlight :
            r.kind = "verify-otp" /\ RequestResolved(r) /\ ~otpVerified /\ otpVerified' =>
                r.phoneNumber = <<parentPhoneCountry', formData'["parentContactNo"]>>]_vars
    /\ [][otpVerified =>
            /\ parentPhoneCountry' = parentPhoneCountry
            /\ formData'["parentContactNo"] = formData["parentContactNo"]]_vars

-----------------------------------------------------------------------------
(* Properties of the wizard as a whole *)

\* C29: whenever the wizard shows step k, every step below k validates to null, under
\* any sequence of Next, Previous and edits of the inputs of the step shown; so a
\* registration request, which re-validates only the last step, is sent only from a
\* form whose steps 0 to 5 all validate to null.
C29_EarlierStepsStayValid ==
    /\ [](\A j \in 0..(currentStep - 1) : validateStep(j) = NULL)
    /\ [][\A r \in inFlight' \ inFlight :
            r.kind = "register" =>
                \A j \in 0..(LastStep - 1) : validateStep(j) = NULL]_vars

\* a registration request is out although an input was mistyped on the way
C29_Witness ==
    /\ currentStep = LastStep
    /\ nBadEdits = MaxBadEdits
    /\ \E r \in inFlight : r.kind = "register"

-----------------------------------------------------------------------------
(* The queue dashboard next to the console *)

\* the student of a row stands in the queue of some department card
Queued(student) ==
    \E d \in DOMAIN groupedStudents : student \in Range(groupedStudents[d])

\* C30: a student whom the console advanced to documents_verified stands in no
\* department queue of the dashboard once a poll has delivered that status.
C30_VerifiedLeavesQueue ==
    \A k \in 1..Len(queueStudents) :
        queueStudents[k].status = "documents_verified" => ~Queued(queueStudents[k])

====
